---- MODULE Spec2Model ----
(***************************************************************************)
(* Gateway session manager of the QQBot adapter, for one bot identity      *)
(* (appId).  The maps cache, attemptSeq and reconnectAttempts of           *)
(* connection/webSocket.ts and botInstances of core/index.ts are keyed by  *)
(* appId and no entry of one identity is read or written on behalf of      *)
(* another, so the model keeps the entries of a single identity, and of    *)
(* the configuration lists of utils/config.ts the identity's record.       *)
(*                                                                         *)
(* JavaScript runs one macrotask (a socket event, a timer, an HTTP         *)
(* completion, a call from the configuration code) to completion and then  *)
(* drains the continuations of the promises that it settled.  Every action *)
(* below is one macrotask, or one such continuation (Continuation).        *)
(***************************************************************************)
EXTENDS Integers, FiniteSets, Sequences, TLC

\* ---------------------------------------------------------------- bounds
\* attemptSeq is capped: no open()/stop() is started at the cap
MaxSeq == 2
\* at most this many backoff delays / reconnect-initiated opens at a time
MaxChains == 2
\* at most this many first-time createBot calls in flight
MaxCalls == 2
\* the cap of attemptSeq where a whole reconnect chain is followed (SpecChain)
MaxDeep == 7
\* the cap of attemptSeq where stop() and open() race a reconnect chain (SpecStop)
MaxMid == 4
\* at most this many applyConfigChange runs awaiting createBot at a time
MaxRuns == 2
\* a send has at most this many elements
MaxElems == 3
\* the network call of a send that throws is one of the first MaxFail
MaxFail == 2
\* a configuration list has at most this many records
MaxItems == 2

\* ------------------------------------------------------- program constants
maxAttempts == 5

Slots == 1..MaxCalls

Opcodes == {"Hello", "READY", "Dispatch", "HeartbeatACK", "Reconnect",
            "InvalidSession", "Unknown"}
\* close codes: normal, going away, no status received, abnormal closure
CloseCodes == {1000, 1001, 1006}
\* the s field of a frame: Null when absent, else a sequence number
Null == -1
Seqs == {Null, 1, 2}
\* d.heartbeat_interval of a Hello frame (two distinct values, in ticks)
Intervals == {1, 2}
\* inbound frames with the opcodes ops: only a Hello carries an interval
Frames(ops) == {f \in [op : ops, s : Seqs, d : {0} \cup Intervals] :
                  (f.op = "Hello") <=> (f.d # 0)}
\* outcomes of api.getGateway() and of the lookups that follow it
GatewayOutcomes == {"ok", "nourl", "notoken", "throw"}
\* The identity's record in a formatted configuration list: its event.type
\* and its markdown.mode, or its absence from the list.  The other fields of a
\* record are left out: a changed record is one whose event.type or
\* markdown.mode has changed.
Absent == [present |-> FALSE, type |-> 0, mode |-> 0]
Records == [present : {TRUE}, type : 0..2, mode : {0}]
\* markdown.mode: 0 (plain messages) and 1 (raw markdown)
Modes == {0, 1}
\* the records of an identity without a gateway session (event.type 0 or 1),
\* with either markdown mode
Bots == [present : {TRUE}, type : 0..1, mode : Modes]

VARIABLES
    attemptSeq,        \* attemptSeq.get(appid) || 0
    reconnectAttempts, \* reconnectAttempts.get(appid), 0 when absent
    cache,             \* cache.get(appid): [conn, timer], conn = 0 when absent
    timers,            \* heartbeat intervals that are running, by owning socket
    att,               \* the closure state of every createWebSocketConnection call
    delays,            \* backoff timers pending in attemptReconnect, by attempt number
    micro,             \* attempt whose awaiter has a continuation queued (0: none)
    handlers,          \* number of listeners on the identity's event channel
    botInstances,      \* botInstances.get(appId)
    registerCount,     \* number of registerBot calls made for the identity
    lastApplied,       \* the identity's record in lastApplied
    pendingNow,        \* <<>> when pendingNow is null, else <<its record>>
    debounceTimer,     \* the 250 ms debounce timer is pending
    runs,              \* the applyConfigChange runs that await createBot
    guildMode,         \* config.guildMode of the identity
    hardcoded,         \* the session manager is the copy with fixed intents
    contact,           \* contact.scene of a sendMsg call
    elements,          \* the element sequence of the call
    markdownMode,      \* the client is AdapterQQBotMarkdown (template pipeline)
    failAt,            \* the network call of the send that throws (0: none)
    mergeOk,           \* common.mergeImage succeeds
    list,              \* the draft of the call, with its network calls so far
    sendPc,            \* "none", "called", then "returned" or "threw"
    user,              \* a configuration list given to formatConfig or writeConfig
    file,              \* config.json as writeConfig wrote it
    result,            \* the list formatConfig returned
    confPc,            \* "none", "given", "formatted", "written", "loaded"
    calls,             \* first-time createBot calls in flight
    hist,              \* history, read by no step (see NoHist)
    started,           \* initQQBotAdapter has run
    last               \* the step just taken: [op, a, arg, emit]

vars == <<attemptSeq, reconnectAttempts, cache, timers, att, delays, micro,
          handlers, botInstances, registerCount, lastApplied, pendingNow,
          debounceTimer, runs, guildMode, hardcoded, contact, elements,
          markdownMode, failAt, mergeOk, list, sendPc, user, file, result,
          confPc, calls, hist, started, last>>

\* the variables of formatConfig and writeConfig
confVars == <<user, file, result, confPc>>

\* the variables of a sendMsg call
sendVars == <<contact, elements, markdownMode, failAt, mergeOk, list, sendPc>>

NoCache == [conn |-> 0, timer |-> 0]
NoAtt == [pc |-> "none", sock |-> "none", listeners |-> FALSE, result |-> "none",
          isReady |-> FALSE, by |-> "none", k |-> 0,
          lastSeq |-> 0, heartbeatInterval |-> 0]
\* type and mode: event.type and markdown.mode of the entry's config;
\* clientMode: markdown.mode of the client's _config; pipeline: the client's class
NoInst == [present |-> FALSE, registeredType |-> "none", type |-> 0, mode |-> 0,
           clientMode |-> 0, pipeline |-> "none"]
NoCall == [pc |-> "idle", type |-> 0, mode |-> 0]
\* stopped: the sockets that existed when stopWebSocketConnection was called
\* stoppedDelays: of the pending backoff delays, those a stop() has found pending
\* invalid: the sockets on which an InvalidSession frame was processed
\* autoOpens: opens made by attemptReconnect since the last READY, open() or stop()
\* timedOut: the attempts whose connectionTimeout resolved the promise
\* delayMs: the duration of the pending backoff timer of each attempt number
\* written: the identity's record in config.json as the file was last read
NoHist == [stopped |-> {}, stoppedDelays |-> [k \in 1..maxAttempts |-> 0],
           invalid |-> {}, autoOpens |-> 0, timedOut |-> {},
           delayMs |-> [k \in 1..maxAttempts |-> 0],
           written |-> Absent]
\* last names the socket events (frame, 'open', 'close', 'error'), the
\* heartbeat tick and the connection timeout: a is the socket, arg the opcode
\* of a frame the live session processed ("ignored" for any other frame) or
\* the close code, s and d the sequence number and the heartbeat interval of a
\* processed frame, emit the socket
\* whose frame was emitted on the event channel, emitSeq the last-seen
\* sequence when event.emit was called, sent the socket.send calls of the
\* step, ready the readiness flag the 'close' or 'error' handler found;
\* cleared (kept for every step) the heartbeat timers that the step cleared
NoLast == [op |-> "other", a |-> 0, arg |-> 0, s |-> Null, d |-> 0, emit |-> 0,
           emitSeq |-> 0, emitted |-> <<>>, sent |-> <<>>, ready |-> FALSE,
           cleared |-> {}]
Observed == {"message", "open", "close", "error", "tick", "timeout", "close()"}

\* the label of a step that processed no frame
Arg(x) == [arg |-> x, s |-> Null, d |-> 0]

\* the attempt numbers of the model (attemptSeq is capped at the largest)
Ids == DOMAIN att

\* The program state as one record, so that a handler is the composition of
\* the functions it calls, in the order of the source.  emit is the socket
\* whose frame made the handler call event.emit (0: no emission).
Cur == [attemptSeq |-> attemptSeq, reconnectAttempts |-> reconnectAttempts,
        cache |-> cache, timers |-> timers, att |-> att, delays |-> delays,
        micro |-> micro, handlers |-> handlers, botInstances |-> botInstances,
        registerCount |-> registerCount, lastApplied |-> lastApplied,
        pendingNow |-> pendingNow, debounceTimer |-> debounceTimer,
        runs |-> runs, guildMode |-> guildMode, hardcoded |-> hardcoded,
        calls |-> calls, hist |-> hist,
        started |-> started, emit |-> 0, emitSeq |-> 0, emitted |-> <<>>,
        sent |-> <<>>]

\* State that can no longer be read is dropped: the flags of a socket whose
\* 'close' event is past, the caller of a promise whose awaiter has run, the
\* heartbeat data of a session without listeners and without a timer.
Collect(S) ==
    [S EXCEPT
       !.att = [a \in DOMAIN S.att |->
                 [S.att[a] EXCEPT
                    !.listeners = @ /\ S.att[a].sock # "closed",
                    !.isReady = @ /\ S.att[a].sock # "closed",
                    !.lastSeq = IF S.att[a].listeners \/ a \in S.timers
                                THEN @ ELSE 0,
                    !.heartbeatInterval = IF S.att[a].listeners \/ a \in S.timers
                                          THEN @ ELSE 0,
                    !.by = IF S.att[a].result = "pending" \/ S.micro = a
                           THEN @ ELSE "none",
                    !.k = IF S.att[a].result = "pending" \/ S.micro = a
                          THEN @ ELSE 0]],
       !.hist.stopped = {a \in @ : S.att[a].sock # "closed"},
       !.hist.invalid = {a \in @ : S.att[a].sock # "closed"},
       !.hist.delayMs = [k \in 1..maxAttempts |->
                           IF S.delays[k] = 0 THEN 0 ELSE @[k]],
       !.hist.timedOut = {a \in @ : /\ S.att[a].sock # "closed"
                                    /\ S.att[a].pc = "done" => S.att[a].sock # "none"}]

Apply(S, op, a, arg) ==
    /\ attemptSeq' = S.attemptSeq
    /\ reconnectAttempts' = S.reconnectAttempts
    /\ cache' = S.cache
    /\ timers' = S.timers
    /\ att' = S.att
    /\ delays' = S.delays
    /\ micro' = S.micro
    /\ handlers' = S.handlers
    /\ botInstances' = S.botInstances
    /\ registerCount' = S.registerCount
    /\ lastApplied' = S.lastApplied
    /\ pendingNow' = S.pendingNow
    /\ debounceTimer' = S.debounceTimer
    /\ runs' = S.runs
    /\ guildMode' = S.guildMode
    /\ hardcoded' = S.hardcoded
    /\ UNCHANGED sendVars
    /\ UNCHANGED confVars
    /\ calls' = S.calls
    /\ hist' = S.hist
    /\ started' = S.started
    /\ last' = IF op \in Observed
               THEN [op |-> op, a |-> a, arg |-> arg.arg, s |-> arg.s, d |-> arg.d,
                     emit |-> S.emit, emitSeq |-> S.emitSeq,
                     emitted |-> S.emitted, sent |-> S.sent,
                     ready |-> op \in {"close", "error"}
                               /\ att[a].listeners /\ att[a].isReady,
                     cleared |-> timers \ S.timers]
               ELSE [NoLast EXCEPT !.cleared = timers \ S.timers]

\* ------------------------------------------------------ connection/webSocket.ts

\* mutant of isStale: no attempt is ever taken for stale
isStale_never(S, a) == FALSE

\* isStale = () => attemptSeq.get(appid) !== attempt
isStale(S, a) == S.attemptSeq # a

\* socket.close(): a socket that was open starts the closing handshake, one
\* that never opened aborts; the 'close' event follows later
socketClose(s) ==
    CASE s = "connecting" -> "failing"
      [] s = "open" -> "closing"
      [] OTHER -> s

\* mutant of close: the cache entry is deleted whatever its connectionId
close_anyEntry(S, a) ==
    LET s1 == [S EXCEPT !.att[a].listeners = FALSE,
                        !.att[a].sock = socketClose(@)]
    IN  IF s1.cache.conn # 0
        THEN [s1 EXCEPT !.timers = @ \ {s1.cache.timer}, !.cache = NoCache]
        ELSE s1

\* mutant of close: the cache entry is deleted, its timer is left running
close_keepTimer(S, a) ==
    LET s1 == [S EXCEPT !.att[a].listeners = FALSE,
                        !.att[a].sock = socketClose(@)]
    IN  IF s1.cache.conn # 0 /\ s1.cache.conn = a
        THEN [s1 EXCEPT !.cache = NoCache]
        ELSE s1

\* close(isClose) of the session of attempt a
close(S, a) ==
    LET s1 == [S EXCEPT !.att[a].listeners = FALSE,
                        !.att[a].sock = socketClose(@)]
    IN  IF s1.cache.conn # 0 /\ s1.cache.conn = a
        THEN [s1 EXCEPT !.timers = @ \ {s1.cache.timer}, !.cache = NoCache]
        ELSE s1

\* the callers that await createWebSocketConnection and do more afterwards
Awaiters == {"first", "existing", "reconnect"}

\* mutant of resolveOnce: the resolved flag is not consulted
resolveOnce_always(S, a, success) ==
    [S EXCEPT !.att[a].result = success,
              !.micro = IF S.att[a].by \in Awaiters THEN a ELSE @]

\* resolveOnce(success); the awaiting createBot / attemptReconnect continues
\* in a microtask
resolveOnce(S, a, success) ==
    IF S.att[a].result = "pending"
    THEN [S EXCEPT !.att[a].result = success,
                   !.micro = IF S.att[a].by \in Awaiters THEN a ELSE @]
    ELSE S

\* mutant of delay: no backoff
delay_fixed(currentAttempt) == 1000

\* Math.min(1000 * Math.pow(2, currentAttempt), 16000)
delay(currentAttempt) ==
    IF 1000 * 2^currentAttempt < 16000 THEN 1000 * 2^currentAttempt ELSE 16000

\* attemptReconnect(config, client, currentAttempt) up to its first await
attemptReconnect(S, currentAttempt) ==
    IF currentAttempt >= maxAttempts
    THEN [S EXCEPT !.reconnectAttempts = 0]
    ELSE [S EXCEPT !.reconnectAttempts = currentAttempt + 1,
                   !.delays[currentAttempt + 1] = @ + 1,
                   !.hist.delayMs[currentAttempt + 1] = delay(currentAttempt)]

\* mutant of createWebSocketConnection: the cached connection is not closed
createWebSocketConnection_keepOld(S, type, by, k) ==
    IF type # 2 THEN S
    ELSE
    LET attempt == S.attemptSeq + 1
        s1 == [S EXCEPT !.attemptSeq = attempt,
                        !.hist.autoOpens = IF by = "reconnect" THEN @ + 1 ELSE 0]
    IN  IF attempt \notin DOMAIN s1.att THEN s1
        ELSE [s1 EXCEPT !.att[attempt] =
                [pc |-> "gateway", sock |-> "none", listeners |-> FALSE,
                 result |-> "pending", isReady |-> FALSE, by |-> by, k |-> k,
                 lastSeq |-> 0, heartbeatInterval |-> 0]]

\* createWebSocketConnection(config, client) up to the returned promise;
\* type is config.event.type, by/k name the caller that awaits the promise
createWebSocketConnection(S, type, by, k) ==
    IF type # 2 THEN S
    ELSE
    LET attempt == S.attemptSeq + 1
        s1 == [S EXCEPT !.attemptSeq = attempt,
                        !.hist.autoOpens = IF by = "reconnect" THEN @ + 1 ELSE 0]
        s2 == IF s1.cache.conn # 0 THEN close(s1, s1.cache.conn) ELSE s1
    IN  IF attempt \notin DOMAIN s2.att THEN s2  \* past the cap: Within refuses
        ELSE [s2 EXCEPT !.att[attempt] =
                [pc |-> "gateway", sock |-> "none", listeners |-> FALSE,
                 result |-> "pending", isReady |-> FALSE, by |-> by, k |-> k,
                 lastSeq |-> 0, heartbeatInterval |-> 0]]

\* mutant of stopWebSocketConnection: the attempt counter is left alone
stopWebSocketConnection_keepSeq(S) ==
    LET s1 == [S EXCEPT !.reconnectAttempts = 0,
                        !.hist.stopped =
                            @ \cup {a \in DOMAIN S.att : S.att[a].sock # "none"},
                        !.hist.stoppedDelays = S.delays,
                        !.hist.autoOpens = 0]
    IN  IF s1.cache.conn # 0 THEN close(s1, s1.cache.conn) ELSE s1

\* stopWebSocketConnection(appid)
stopWebSocketConnection(S) ==
    LET s1 == [S EXCEPT !.attemptSeq = @ + 1,
                        !.reconnectAttempts = 0,
                        !.hist.stopped =
                            @ \cup {a \in DOMAIN S.att : S.att[a].sock # "none"},
                        !.hist.stoppedDelays = S.delays,
                        !.hist.autoOpens = 0]
    IN  IF s1.cache.conn # 0 THEN close(s1, s1.cache.conn) ELSE s1

\* mutant of setHeartbeatInterval: the interval is recorded, no timer is set
setHeartbeatInterval_noTimer(S, a, interval) ==
    [S EXCEPT !.att[a].heartbeatInterval = interval]

\* the setHeartbeatInterval callback given to handleWebSocketMessage
setHeartbeatInterval(S, a, interval) ==
    LET s0 == [S EXCEPT !.att[a].heartbeatInterval = interval]
        s1 == IF s0.cache.conn # 0 /\ s0.cache.timer # 0
              THEN [s0 EXCEPT !.timers = @ \ {s0.cache.timer}] ELSE s0
        s2 == [s1 EXCEPT !.timers = @ \cup {a}]
    IN  IF s2.cache.conn # 0 THEN [s2 EXCEPT !.cache.timer = a] ELSE s2

\* mutant of send: nothing is sent
send_nothing(S, a, op, d) == S

\* socket.send(frame) on the socket of attempt a
send(S, a, op, d) == [S EXCEPT !.sent = Append(@, [to |-> a, op |-> op, d |-> d])]

\* intents |= 1 << i
BitOr(intents, i) ==
    IF (intents \div 2^i) % 2 = 1 THEN intents ELSE intents + 2^i

\* the Identify of the copy of the session manager without auto-reconnect
fixedIntents == 33558531

\* buildIntents(cfg)
buildIntents(cfgGuildMode) ==
    LET intents == BitOr(BitOr(BitOr(BitOr(0, 0), 1), 12), 25)
    IN  IF cfgGuildMode = 1 THEN BitOr(intents, 9) ELSE BitOr(intents, 30)

\* d.intents of the Identify frame
identifyIntents(S) ==
    IF S.hardcoded THEN fixedIntents ELSE buildIntents(S.guildMode)

\* the setSeq callback, called when the frame carries s
setSeq(S, a, s) == IF s # Null THEN [S EXCEPT !.att[a].lastSeq = s] ELSE S

\* mutant of emit: the event carries the last-seen sequence for s
emit_lastSeq(S, a, f) ==
    [S EXCEPT !.emit = a, !.emitSeq = S.att[a].lastSeq,
              !.emitted = Append(@, [f EXCEPT !.s = S.att[a].lastSeq])]

\* event.emit(appid, {op, s, t, d}): the frame's own fields (t is READY for
\* the op "READY" of the model, another type for "Dispatch")
emit(S, a, f) ==
    [S EXCEPT !.emit = a, !.emitSeq = S.att[a].lastSeq,
              !.emitted = Append(@, [op |-> f.op, s |-> f.s, d |-> f.d])]

\* mutant of handleWebSocketMessage: the event is emitted before setSeq
handleWebSocketMessage_emitFirst(S, a, f) ==
    LET s0 == setSeq(S, a, f.s)
    IN  CASE f.op = "Hello" -> send(setHeartbeatInterval(s0, a, f.d), a, "Identify",
                                    identifyIntents(s0))
          [] f.op \in {"READY", "Dispatch"} -> setSeq(emit(S, a, f), a, f.s)
          [] f.op = "Reconnect" ->
                attemptReconnect([s0 EXCEPT !.att[a].sock = socketClose(@)], 0)
          [] f.op = "InvalidSession" -> [s0 EXCEPT !.att[a].sock = socketClose(@),
                                                   !.hist.invalid = @ \cup {a}]
          [] OTHER -> s0

\* mutant of handleWebSocketMessage: a Reconnect frame only closes the socket
handleWebSocketMessage_noRetry(S, a, f) ==
    LET s0 == setSeq(S, a, f.s)
    IN  CASE f.op = "Hello" -> send(setHeartbeatInterval(s0, a, f.d), a, "Identify",
                                    identifyIntents(s0))
          [] f.op \in {"READY", "Dispatch"} -> emit(s0, a, f)
          [] f.op \in {"Reconnect", "InvalidSession"} ->
                [s0 EXCEPT !.att[a].sock = socketClose(@)]
          [] OTHER -> s0

\* handleWebSocketMessage(config, client, data, socket, ...)
handleWebSocketMessage(S, a, f) ==
    LET s0 == setSeq(S, a, f.s)
    IN  CASE f.op = "Hello" -> send(setHeartbeatInterval(s0, a, f.d), a, "Identify",
                                    identifyIntents(s0))
          [] f.op \in {"READY", "Dispatch"} -> emit(s0, a, f)
          [] f.op = "Reconnect" ->
                attemptReconnect([s0 EXCEPT !.att[a].sock = socketClose(@)], 0)
          [] f.op = "InvalidSession" -> [s0 EXCEPT !.att[a].sock = socketClose(@),
                                                   !.hist.invalid = @ \cup {a}]
          [] OTHER -> s0

\* socket.on('message', ...)
onMessage(S, a, f) ==
    IF isStale(S, a) THEN S
    ELSE IF S.cache.conn = 0 \/ S.cache.conn # a THEN S
    ELSE LET s1 == IF f.op = "READY"
                   THEN resolveOnce([S EXCEPT !.att[a].isReady = TRUE,
                                              !.hist.autoOpens = 0], a, "true")
                   ELSE S
         IN  handleWebSocketMessage(s1, a, f)

\* mutant of onClose: the close code is not looked at
onClose_anyCode(S, a, code) ==
    IF isStale(S, a) THEN S
    ELSE LET wasReady == S.att[a].isReady
             s1 == resolveOnce(close(S, a), a, "false")
         IN  IF wasReady THEN attemptReconnect(s1, 0) ELSE s1

\* socket.on('close', (code, reason) => ...)
onClose(S, a, code) ==
    IF isStale(S, a) THEN S
    ELSE LET wasReady == S.att[a].isReady
             s1 == resolveOnce(close(S, a), a, "false")
         IN  IF wasReady /\ code # 1000 /\ code # 1001
             THEN attemptReconnect(s1, 0) ELSE s1

\* socket.on('error', ...)
onError(S, a) ==
    IF isStale(S, a) THEN S
    ELSE resolveOnce(close(S, a), a, "false")

\* mutant of onOpen: the socket enters the cache whatever its attempt
onOpen_noStaleCheck(S, a) == [S EXCEPT !.cache = [conn |-> a, timer |-> 0]]

\* socket.on('open', ...)
onOpen(S, a) ==
    IF isStale(S, a)
    THEN [S EXCEPT !.att[a].listeners = FALSE, !.att[a].sock = socketClose(@)]
    ELSE [S EXCEPT !.cache = [conn |-> a, timer |-> 0]]

\* mutant of onTimeout: the timeout starts the reconnect policy
onTimeout_retry(S, a) == attemptReconnect(resolveOnce(S, a, "false"), 0)

\* mutant of onTimeout: a stale attempt's timeout returns without resolving
onTimeout_unlessStale(S, a) ==
    IF isStale(S, a) THEN S
    ELSE resolveOnce([S EXCEPT !.hist.timedOut = @ \cup {a}], a, "false")

\* the connectionTimeout callback (cleared when the promise is resolved)
onTimeout(S, a) ==
    resolveOnce([S EXCEPT !.hist.timedOut = @ \cup {a}], a, "false")

\* api.getGateway().then(...).catch(...)
onGateway(S, a, outcome) ==
    LET s0 == [S EXCEPT !.att[a].pc = "done"]
    IN  IF outcome = "throw"
        THEN IF isStale(s0, a) THEN s0 ELSE resolveOnce(s0, a, "false")
        ELSE IF isStale(s0, a) THEN resolveOnce(s0, a, "false")
        ELSE IF outcome = "nourl" THEN resolveOnce(s0, a, "false")
        ELSE IF outcome = "notoken" THEN resolveOnce(s0, a, "false")
        ELSE [s0 EXCEPT !.att[a].sock = "connecting", !.att[a].listeners = TRUE]

\* the tail of attemptReconnect, after the backoff delay
afterDelay(S, attempt) ==
    IF S.reconnectAttempts # attempt THEN S
    ELSE createWebSocketConnection(S, 2, "reconnect", attempt)

\* the tail of attemptReconnect, after createWebSocketConnection settled
afterReconnect(S, a) ==
    IF S.att[a].result # "true"
    THEN attemptReconnect(S, S.att[a].k)
    ELSE [S EXCEPT !.reconnectAttempts = 0]

\* ------------------------------------------------------------ core/index.ts

\* stopRuntime(appId)
stopRuntime(S) == [stopWebSocketConnection(S) EXCEPT !.handlers = 0]

\* the applyConfigChange runs that await the createBot call of slot c, or the
\* createBot call that awaits attempt a
Awaiting(S, c, a) ==
    {r \in S.runs : (c # 0 /\ r.c = c) \/ (a # 0 /\ r.a = a)}

\* applyConfigChange after `await createBot(v)`: the loop has no other
\* identity to visit, the snapshot is recorded and pendingNow is cleared
afterCreateBot(S, c, a) ==
    IF Awaiting(S, c, a) = {} THEN S
    ELSE LET r == CHOOSE r \in Awaiting(S, c, a) : TRUE
         IN  [S EXCEPT !.lastApplied = r.now, !.pendingNow = <<>>,
                       !.runs = @ \ {r}]

\* mutant of the catch block of createBot: the runtime is left as it is
createBotCatch_keep(S, c) ==
    [S EXCEPT !.calls[c] = NoCall, !.runs = @ \ Awaiting(S, c, 0)]

\* the catch block of createBot; the error rejects the applyConfigChange run
\* that awaits the call, which startWatch swallows
createBotCatch(S, c) ==
    [stopRuntime(S) EXCEPT !.botInstances = NoInst, !.calls[c] = NoCall,
                           !.runs = @ \ Awaiting(S, c, 0)]

\* createClient(cfg): the class of the client by Number(cfg.markdown?.mode)
createClient(mode) ==
    IF mode = 0 THEN "AdapterQQBotNormal"
    ELSE IF mode = 1 \/ (mode >= 3 /\ mode <= 5) THEN "AdapterQQBotMarkdown"
    ELSE "AdapterQQBotNormal"

\* the registry entry of a first-time createBot call: config: bot, and the
\* client that createClient(bot, api) has built, whose _config is bot
Entry(call, registeredType) ==
    [present |-> TRUE, registeredType |-> registeredType, type |-> call.type,
     mode |-> call.mode, clientMode |-> call.mode,
     pipeline |-> createClient(call.mode)]

\* createBot(bot) up to its first await; c is a free slot for a first-time call
createBot(S, bot, c) ==
    IF bot.type = 0
    THEN [stopRuntime(S) EXCEPT !.botInstances = NoInst]
    ELSE IF S.botInstances.present
    THEN LET s1 == [stopRuntime(S) EXCEPT !.botInstances.type = bot.type,
                                          !.botInstances.mode = bot.mode]
             s2 == [s1 EXCEPT !.handlers = @ + 1]
         IN  IF bot.type = 2
             THEN createWebSocketConnection(s2, bot.type, "existing", 0)
             ELSE s2
    ELSE [S EXCEPT !.calls[c] = [pc |-> "token", type |-> bot.type,
                                 mode |-> bot.mode]]

\* createBot after getAccessToken settled
afterToken(S, c, ok) ==
    IF ok THEN [S EXCEPT !.calls[c].pc = "getMe"] ELSE createBotCatch(S, c)

\* createBot after api.getMe() settled
afterGetMe(S, c, ok) ==
    IF ~ok THEN createBotCatch(S, c)
    ELSE IF S.calls[c].type = 2
    THEN createWebSocketConnection([S EXCEPT !.calls[c].pc = "ws"], 2, "first", c)
    ELSE afterCreateBot(
           [S EXCEPT !.handlers = @ + 1,
                     !.registerCount = @ + 1,
                     !.botInstances = Entry(S.calls[c], "http"),
                     !.calls[c] = NoCall], c, 0)

\* createBot after createWebSocketConnection settled
afterWs(S, a) ==
    LET c == S.att[a].k
    IN  afterCreateBot(
          IF S.att[a].result # "true"
          THEN [S EXCEPT !.calls[c] = NoCall]
          ELSE [S EXCEPT !.handlers = @ + 1,
                         !.registerCount = @ + 1,
                         !.botInstances = Entry(S.calls[c], "webSocketClient"),
                         !.calls[c] = NoCall], c, 0)

\* createBot's update path after createWebSocketConnection settled: it returns
afterExisting(S, a) == afterCreateBot(S, 0, a)

\* ------------------------------------------------------------ utils/config.ts

\* applyConfigChange() up to its first await.  byValue: whether diffArray
\* compares records by value (a changed record is then both removed and added)
\* or by identity (a changed record is then common); c is a free slot.
applyConfigChange(S, byValue, c) ==
    IF S.pendingNow = <<>> THEN S
    ELSE LET now == S.pendingNow[1]
             old == S.lastApplied
             removed == old.present /\ (~now.present \/ (byValue /\ now # old))
             s1 == IF removed /\ old.type = 2
                   THEN stopWebSocketConnection(S) ELSE S
             applied == [s1 EXCEPT !.lastApplied = now, !.pendingNow = <<>>]
         IN  IF ~now.present \/ now = old \/ now.type = 0 THEN applied
             ELSE LET s2 == createBot(s1, now, c)
                  IN  IF ~s1.botInstances.present
                      THEN [s2 EXCEPT !.runs = @ \cup {[now |-> now, c |-> c, a |-> 0]}]
                      ELSE IF now.type = 2
                      THEN [s2 EXCEPT !.runs = @ \cup {[now |-> now, c |-> 0,
                                                        a |-> s2.attemptSeq]}]
                      ELSE [s2 EXCEPT !.lastApplied = now, !.pendingNow = <<>>]


\* ------------------------------------------- core/adapter/normal.ts, markdown.ts

\* The elements of a send: a text with no, one or two bare URLs or with a URL
\* that has a query string ("u?"), a remote and a local image, a reply, a passive reply by message id ("p"), by event id ("e") and with
\* is_wakeup, a video and a face.
El(type) == [type |-> type, urls |-> <<>>, file |-> "", messageId |-> "",
             id |-> "", source |-> "msg", is_wakeup |-> FALSE]
Elements ==
    {[El("text") EXCEPT !.urls = u] : u \in {<<>>, <<"u1">>, <<"u1", "u2">>, <<"u?">>}}
      \cup {[El("image") EXCEPT !.file = f] : f \in {"http", "file"}}
      \cup {[El("reply") EXCEPT !.messageId = "r"]}
      \cup {[El("pasmsg") EXCEPT !.id = "p"],
            [El("pasmsg") EXCEPT !.id = "e", !.source = "event"]}
      \cup {[El("pasmsg") EXCEPT !.id = "p", !.is_wakeup = TRUE]}
      \cup {El("video"), El("face")}
Scenes == {"friend", "group", "guild", "direct", "other"}

\* an image reference: a file of the caller, the QR code of one URL or the
\* composite of several, an uploaded video
Img(src, of) == [src |-> src, of |-> of]
NoImg == Img("none", {})
\* a text segment: the URLs that were replaced by the placeholder
Seg(kind, replaced) == [kind |-> kind, replaced |-> replaced]

\* QQdMsgOptions(...), GuildMsgOptions(...), new FormData()
Payload(kind, text, media, form) ==
    [kind |-> kind, text |-> text, media |-> media, form |-> form,
     msg_id |-> "", event_id |-> "", msg_seq |-> Null, is_wakeup |-> FALSE]

\* no draft: initList has not been called
NoList == [built |-> FALSE, content |-> <<>>, image |-> <<>>, imageUrls |-> <<>>,
           imageFiles |-> <<>>, list |-> <<>>,
           pasmsg |-> [msg_id |-> "", msg_seq |-> 0, type |-> "msg",
                       is_wakeup |-> FALSE],
           reply |-> "", requests |-> <<>>, threw |-> FALSE]

\* this.initList(type)
initList == [NoList EXCEPT !.built = TRUE]

\* a network call of the send (uploadMedia, send*Msg): the failAt-th throws
request(D, op, item) ==
    [D EXCEPT !.requests = Append(@, [op |-> op, item |-> item]),
              !.threw = (Len(D.requests) + 1 = failAt)]

Range(q) == {q[i] : i \in DOMAIN q}

\* new RegExp(url, 'g') matches the URL itself unless the URL holds a character
\* that is an operator of the pattern language, such as the ? of a query
Literal(url) == url # "u?"

\* hendleText(text) of the direct pipeline: text.replace(new RegExp(url, 'g'),
\* placeholder) for each URL
hendleTextSeg(v) == Seg("text", {url \in Range(v.urls) : Literal(url)})

\* hendleText(text) of the direct pipeline: qr, or qrs when the merge failed
hendleTextQrs(v) ==
    IF Len(v.urls) = 0 THEN <<>>
    ELSE IF Len(v.urls) = 1 THEN <<Img("qr", {v.urls[1]})>>
    ELSE IF mergeOk THEN <<Img("merged", Range(v.urls))>>
    ELSE [i \in 1..Len(v.urls) |-> Img("qr", {v.urls[i]})]

\* the pasmsg element of sendQQMsg (both pipelines)
pasmsgElement(D, v, scene) ==
    LET d1 == IF v.source = "event" THEN [D EXCEPT !.pasmsg.type = "event"] ELSE D
    IN  IF v.is_wakeup /\ scene = "friend"
        THEN [d1 EXCEPT !.pasmsg.is_wakeup = TRUE, !.pasmsg.msg_id = ""]
        ELSE [d1 EXCEPT !.pasmsg.msg_id = v.id]

\* the video / record element of sendQQMsg (both pipelines)
mediaElement(D, v) ==
    LET d1 == request(D, "uploadMedia", Payload("media", <<>>, Img("video", {}), FALSE))
    IN  IF d1.threw THEN d1
        ELSE [d1 EXCEPT !.list = Append(@, Payload("media", <<>>, Img("video", {}), FALSE))]

\* one iteration of the element loop of AdapterQQBotNormal.sendQQMsg
normalQQElement(D, v, scene) ==
    CASE v.type = "text" ->
           [D EXCEPT !.content = Append(@, hendleTextSeg(v)),
                     !.image = @ \o hendleTextQrs(v)]
      [] v.type = "image" -> [D EXCEPT !.image = Append(@, Img(v.file, {}))]
      [] v.type = "reply" ->
           IF D.pasmsg.msg_id = "" THEN [D EXCEPT !.pasmsg.msg_id = v.messageId]
           ELSE D
      [] v.type = "pasmsg" -> pasmsgElement(D, v, scene)
      [] v.type = "video" -> mediaElement(D, v)
      [] OTHER -> D

\* one iteration of the element loop of AdapterQQBotNormal.sendGuildMsg
normalGuildElement(D, v, scene) ==
    CASE v.type = "text" ->
           [D EXCEPT !.content = Append(@, hendleTextSeg(v)),
                     !.image = @ \o hendleTextQrs(v)]
      [] v.type = "image" ->
           IF v.file = "http" THEN [D EXCEPT !.imageUrls = Append(@, Img(v.file, {}))]
           ELSE [D EXCEPT !.imageFiles = Append(@, Img(v.file, {}))]
      [] v.type = "pasmsg" ->
           [D EXCEPT !.pasmsg.type = IF v.source = "event" THEN "event" ELSE @,
                     !.pasmsg.msg_id = v.id]
      [] v.type = "reply" -> [D EXCEPT !.reply = v.messageId]
      [] v.type = "face" -> [D EXCEPT !.content = Append(@, Seg("face", {}))]
      [] OTHER -> D

\* one iteration of the element loop of AdapterQQBotMarkdown.sendQQMsg
markdownQQElement(D, v, scene) ==
    CASE v.type = "text" -> [D EXCEPT !.content = Append(@, Seg("text", {}))]
      [] v.type = "image" -> [D EXCEPT !.image = Append(@, Img(v.file, {}))]
      [] v.type = "pasmsg" -> pasmsgElement(D, v, scene)
      [] v.type = "video" -> mediaElement(D, v)
      [] OTHER -> D

\* one iteration of the element loop of AdapterQQBotMarkdown.sendGuildMsg
markdownGuildElement(D, v, scene) ==
    CASE v.type = "text" -> [D EXCEPT !.content = Append(@, Seg("text", {}))]
      [] v.type = "image" -> [D EXCEPT !.image = Append(@, Img(v.file, {}))]
      [] v.type = "pasmsg" ->
           [D EXCEPT !.pasmsg.type = IF v.source = "event" THEN "event" ELSE @,
                     !.pasmsg.msg_id = v.id]
      [] v.type = "reply" -> [D EXCEPT !.reply = v.messageId]
      [] v.type = "face" -> [D EXCEPT !.content = Append(@, Seg("face", {}))]
      [] OTHER -> D

\* for (const v of elements): a network call that throws ends the send
RECURSIVE elementLoop(_, _, _, _, _)
elementLoop(D, els, i, scene, which) ==
    IF i > Len(els) \/ D.threw THEN D
    ELSE elementLoop(CASE which = "normalQQ" -> normalQQElement(D, els[i], scene)
                       [] which = "normalGuild" -> normalGuildElement(D, els[i], scene)
                       [] which = "markdownQQ" -> markdownQQElement(D, els[i], scene)
                       [] OTHER -> markdownGuildElement(D, els[i], scene),
                     els, i + 1, scene, which)

\* for (const url of list.image): upload, then queue a media payload
RECURSIVE uploadImages(_, _)
uploadImages(D, i) ==
    IF i > Len(D.image) \/ D.threw THEN D
    ELSE LET item == Payload("media", <<>>, D.image[i], FALSE)
             d1 == request(D, "uploadMedia", item)
         IN  uploadImages(IF d1.threw THEN d1
                          ELSE [d1 EXCEPT !.list = Append(@, item)], i + 1)

\* the pasmsg closure of AdapterQQBotNormal.sendQQMsg is built: msg_seq++
normalQQBind(D, scene) ==
    IF D.pasmsg.is_wakeup /\ scene = "friend" THEN D
    ELSE IF D.pasmsg.msg_id = "" THEN D
    ELSE [D EXCEPT !.pasmsg.msg_seq = @ + 1]

\* pasmsg(item) of AdapterQQBotNormal.sendQQMsg
normalQQPasmsg(D, scene, item) ==
    IF D.pasmsg.is_wakeup /\ scene = "friend" THEN [item EXCEPT !.is_wakeup = TRUE]
    ELSE IF D.pasmsg.msg_id = "" THEN item
    ELSE IF D.pasmsg.type = "msg"
    THEN [item EXCEPT !.msg_seq = D.pasmsg.msg_seq, !.msg_id = D.pasmsg.msg_id]
    ELSE [item EXCEPT !.msg_seq = D.pasmsg.msg_seq, !.event_id = D.pasmsg.msg_id]

\* Date.now() % 0xFFFFFFFF at the call
Now == 1000

\* pasmsg(item) of AdapterQQBotMarkdown.sendQQMsg, msgSeqCounter items before
markdownQQPasmsg(D, scene, item, msgSeqCounter) ==
    IF D.pasmsg.is_wakeup /\ scene = "friend" THEN [item EXCEPT !.is_wakeup = TRUE]
    ELSE IF D.pasmsg.msg_id = "" THEN [item EXCEPT !.msg_seq = Now + msgSeqCounter]
    ELSE IF D.pasmsg.type = "msg"
    THEN [item EXCEPT !.msg_seq = D.pasmsg.msg_seq + msgSeqCounter,
                      !.msg_id = D.pasmsg.msg_id]
    ELSE [item EXCEPT !.msg_seq = D.pasmsg.msg_seq + msgSeqCounter,
                      !.event_id = D.pasmsg.msg_id]

\* pasmsg(item) of sendGuildMsg (both pipelines)
guildPasmsg(D, scene, item) ==
    IF D.pasmsg.msg_id = "" THEN item
    ELSE IF D.pasmsg.type = "msg" THEN [item EXCEPT !.msg_id = D.pasmsg.msg_id]
    ELSE [item EXCEPT !.event_id = D.pasmsg.msg_id]

\* for (const item of list.list) { pasmsg(item); await send(...) }
RECURSIVE sendLoop(_, _, _, _)
sendLoop(D, i, scene, which) ==
    IF i > Len(D.list) \/ D.threw THEN D
    ELSE LET item == CASE which = "normalQQ" -> normalQQPasmsg(D, scene, D.list[i])
                       [] which = "markdownQQ" ->
                            markdownQQPasmsg(D, scene, D.list[i], i - 1)
                       [] OTHER -> guildPasmsg(D, scene, D.list[i])
         IN  sendLoop(request([D EXCEPT !.list[i] = item], "send", item),
                      i + 1, scene, which)

\* the literal payload that is sent when the draft holds no payload
Unsupported == Payload("text", <<Seg("unsupported", {})>>, NoImg, FALSE)

\* mutant of orUnsupported: an empty payload list is sent as it is
orUnsupported_nothing(D) == D

\* if (!list.list.length) list.list.push(<the literal text payload>)
orUnsupported(D) ==
    IF D.list = <<>> THEN [D EXCEPT !.list = <<Unsupported>>] ELSE D

\* AdapterQQBotNormal.sendQQMsg after the element loop
normalQQAssemble(D, scene) ==
    LET d1 == IF D.content # <<>>
              THEN [D EXCEPT !.list = <<Payload("text", D.content, NoImg, FALSE)>> \o @]
              ELSE D
        d2 == uploadImages(d1, 1)
    IN  IF d2.threw THEN d2
        ELSE sendLoop(orUnsupported(normalQQBind(d2, scene)), 1, scene, "normalQQ")

\* AdapterQQBotNormal.sendGuildMsg after the element loop
normalGuildAssemble(D, scene) ==
    LET d1 == IF D.content = <<>> THEN D
              ELSE IF D.imageUrls # <<>>
              THEN [D EXCEPT !.list = <<Payload("text", D.content, D.imageUrls[1],
                                                FALSE)>> \o @,
                             !.imageUrls = Tail(@)]
              ELSE IF D.imageFiles # <<>>
              THEN [D EXCEPT !.list = <<Payload("text", D.content, D.imageFiles[1],
                                                TRUE)>> \o @,
                             !.imageFiles = Tail(@)]
              ELSE [D EXCEPT !.list = <<Payload("text", D.content, NoImg, FALSE)>> \o @]
        d2 == [d1 EXCEPT !.list =
                 @ \o [i \in 1..Len(d1.imageUrls) |->
                          Payload("image", <<>>, d1.imageUrls[i], FALSE)]
                   \o [i \in 1..Len(d1.imageFiles) |->
                          Payload("image", <<>>, d1.imageFiles[i], TRUE)]]
    IN  sendLoop(orUnsupported(d2), 1, scene, "normalGuild")

\* this.markdown(type, this, list, contact, pasmsg, send): the template
\* strategy renders text and images into one markdown payload, applies the
\* binding to every payload and sends each
markdown(D, scene, which) ==
    LET d1 == IF D.content # <<>> \/ D.image # <<>>
              THEN [D EXCEPT !.list = <<Payload("markdown", D.content, NoImg, FALSE)>>
                                        \o @]
              ELSE D
    IN  sendLoop(d1, 1, scene, which)

\* sendQQMsg(contact, elements) of the client in use
sendQQMsg(scene, els) ==
    IF markdownMode
    THEN LET d1 == elementLoop(initList, els, 1, scene, "markdownQQ")
         IN  IF d1.threw THEN d1 ELSE markdown(d1, scene, "markdownQQ")
    ELSE LET d1 == elementLoop(initList, els, 1, scene, "normalQQ")
         IN  IF d1.threw THEN d1 ELSE normalQQAssemble(d1, scene)

\* sendGuildMsg(contact, elements) of the client in use
sendGuildMsg(scene, els) ==
    IF markdownMode
    THEN markdown(elementLoop(initList, els, 1, scene, "markdownGuild"), scene,
                  "markdownGuild")
    ELSE normalGuildAssemble(elementLoop(initList, els, 1, scene, "normalGuild"),
                             scene)

\* mutant of sendMsg: any other scene is sent as a group message
sendMsg_anyScene(scene, els) ==
    IF scene \in {"direct", "guild"} THEN sendGuildMsg(scene, els)
    ELSE sendQQMsg(scene, els)

\* sendMsg(contact, elements)
sendMsg(scene, els) ==
    IF scene \in {"direct", "guild"} THEN sendGuildMsg(scene, els)
    ELSE IF scene \in {"group", "friend"} THEN sendQQMsg(scene, els)
    ELSE [NoList EXCEPT !.threw = TRUE]

\* ---------------------------------------- utils/config.ts (formatConfig, save)

\* a key that an object does not have: a string, a number (Null), an object
Missing == "missing"
NoEvent == [has |-> FALSE, type |-> Null, wsUrl |-> Missing, wsToken |-> Missing]

\* getDefaultConfig()[0]: prodApi and event (sandboxApi and tokenApi are
\* treated by the same statements as prodApi)
def == [appId |-> "", prodApi |-> "https://api.sgroup.qq.com",
        event |-> [has |-> TRUE, type |-> 0,
                   wsUrl |-> "wss://sandbox.api.sgroup.qq.com/websocket/",
                   wsToken |-> ""]]

\* The records of a list: an identity that is empty, blank, padded or plain;
\* prodApi absent, empty, the default or another address; event absent or with
\* any of its keys absent, empty or set.
Events == {NoEvent} \cup [has : {TRUE}, type : {Null, 0, 1},
                          wsUrl : {Missing, "", "x"}, wsToken : {"", "t"}]
Items == [appId : {"", " ", "a", " a", "b"},
          prodApi : {Missing, "", def.prodApi, "x"},
          event : Events]

\* String(appId || '').trim()
trim(appId) == CASE appId = " " -> "" [] appId = " a" -> "a" [] OTHER -> appId

\* x || d
Or(x, d) == IF x \in {Missing, ""} THEN d ELSE x

\* formatConfig: the record with the defaults filled in
formatted(item) ==
    [appId |-> item.appId,
     prodApi |-> Or(item.prodApi, def.prodApi),
     event |-> [has |-> TRUE,
                type |-> IF item.event.type = Null THEN def.event.type
                         ELSE item.event.type,
                wsUrl |-> Or(item.event.wsUrl, def.event.wsUrl),
                wsToken |-> Or(item.event.wsToken, def.event.wsToken)]]

\* mutant of uniqSet: the first record of an identity stays
uniqSet_first(uniq, id, cfg) ==
    IF \E i \in 1..Len(uniq) : uniq[i].id = id THEN uniq
    ELSE Append(uniq, [id |-> id, cfg |-> cfg])

\* uniq.set(id, cfg): a Map keeps the position of the first insertion of a key
uniqSet(uniq, id, cfg) ==
    IF \E i \in 1..Len(uniq) : uniq[i].id = id
    THEN [i \in 1..Len(uniq) |-> IF uniq[i].id = id THEN [id |-> id, cfg |-> cfg]
                                 ELSE uniq[i]]
    ELSE Append(uniq, [id |-> id, cfg |-> cfg])

\* result.forEach(cfg => { ...; if (!id) return; uniq.set(id, cfg) })
RECURSIVE dedup(_, _, _)
dedup(res, i, uniq) ==
    IF i > Len(res) THEN uniq
    ELSE dedup(res, i + 1,
               IF trim(res[i].appId) = "" THEN uniq
               ELSE uniqSet(uniq, trim(res[i].appId), res[i]))

\* formatConfig(user)
formatConfig(u) ==
    LET res == [i \in 1..Len(u) |-> formatted(u[i])]
        uniq == dedup(res, 1, <<>>)
    IN  [i \in 1..Len(uniq) |-> uniq[i].cfg]

\* mutant of cleaned: an event with the default addresses is removed whatever
\* its type
cleaned_anyType(item) ==
    [item EXCEPT !.prodApi = IF @ = def.prodApi THEN Missing ELSE @,
                 !.event = IF ~@.has THEN @
                           ELSE IF @.wsUrl = def.event.wsUrl
                                   /\ @.wsToken = def.event.wsToken
                           THEN NoEvent
                           ELSE [@ EXCEPT !.wsUrl = IF @ = def.event.wsUrl
                                                    THEN Missing ELSE @,
                                          !.wsToken = IF @ = def.event.wsToken
                                                      THEN Missing ELSE @]]

\* cleanConfigForWrite: one record
cleaned(item) ==
    LET c1 == [item EXCEPT !.prodApi = IF @ = def.prodApi THEN Missing ELSE @]
        e1 == IF ~c1.event.has THEN c1.event
              ELSE [c1.event EXCEPT
                      !.wsUrl = IF @ = def.event.wsUrl THEN Missing ELSE @,
                      !.wsToken = IF @ = def.event.wsToken THEN Missing ELSE @]
    IN  [c1 EXCEPT !.event =
           IF e1.has /\ e1.type = 0 /\ e1.wsUrl = Missing /\ e1.wsToken = Missing
           THEN NoEvent ELSE e1]

\* cleanConfigForWrite(config)
cleanConfigForWrite(config) == [i \in 1..Len(config) |-> cleaned(config[i])]

\* JSON.stringify of an object: the keys it has, with their values
stringify(obj, keys) == [k \in keys |-> obj[k]]

\* JSON.stringify(cleaned, null, 2)
JSONstringify(config) ==
    [i \in 1..Len(config) |->
        LET o == config[i]
            e == stringify(o.event,
                           (IF o.event.type # Null THEN {"type"} ELSE {})
                             \cup (IF o.event.wsUrl # Missing THEN {"wsUrl"} ELSE {})
                             \cup (IF o.event.wsToken # Missing THEN {"wsToken"} ELSE {}))
        IN  [k \in {"appId"} \cup (IF o.prodApi # Missing THEN {"prodApi"} ELSE {})
                             \cup (IF o.event.has THEN {"event"} ELSE {})
               |-> IF k = "event" THEN e ELSE o[k]]]

\* the value of a key of a parsed object
get(text, key, missing) == IF key \in DOMAIN text THEN text[key] ELSE missing

\* requireFileSync(cfgPath)
requireFileSync(text) ==
    [i \in 1..Len(text) |->
        [appId |-> get(text[i], "appId", Missing),
         prodApi |-> get(text[i], "prodApi", Missing),
         event |-> IF "event" \in DOMAIN text[i]
                   THEN [has |-> TRUE,
                         type |-> get(text[i].event, "type", Null),
                         wsUrl |-> get(text[i].event, "wsUrl", Missing),
                         wsToken |-> get(text[i].event, "wsToken", Missing)]
                   ELSE NoEvent]]

\* ------------------------------------------------------------------ the steps

RECURSIVE SumTo(_, _)
SumTo(f, n) == IF n = 0 THEN 0 ELSE f[n] + SumTo(f, n - 1)

\* an awaiter that has not run its continuation yet
Awaited(S, a) == S.att[a].result = "pending" \/ S.micro = a

\* reconnect chains: pending backoff delays and reconnect-initiated opens
ChainCount(S) ==
    SumTo(S.delays, maxAttempts)
      + Cardinality({a \in DOMAIN S.att : S.att[a].by = "reconnect" /\ Awaited(S, a)})

\* the caps of the model
Within(S) ==
    S.attemptSeq <= Cardinality(DOMAIN S.att) /\ ChainCount(S) <= MaxChains

FreeSlot == IF \E c \in Slots : calls[c].pc = "idle"
            THEN CHOOSE c \in Slots : calls[c].pc = "idle"
                                      /\ \A d \in Slots : calls[d].pc = "idle" => c <= d
            ELSE 0

InitSession(cap) ==
    /\ attemptSeq = 0
    /\ reconnectAttempts = 0
    /\ cache = NoCache
    /\ timers = {}
    /\ att = [a \in 1..cap |-> NoAtt]
    /\ delays = [k \in 1..maxAttempts |-> 0]
    /\ micro = 0
    /\ handlers = 0
    /\ botInstances = NoInst
    /\ registerCount = 0
    /\ lastApplied = Absent
    /\ pendingNow = <<>>
    /\ debounceTimer = FALSE
    /\ runs = {}
    /\ calls = [c \in Slots |-> NoCall]
    /\ hist = NoHist
    /\ started = FALSE
    /\ last = NoLast

\* the identity is in the public domain and the session manager is
\* connection/webSocket.ts
DefaultBuild == guildMode = 0 /\ hardcoded = FALSE

\* no sendMsg call
NoSend ==
    /\ contact = "other" /\ elements = <<>> /\ markdownMode = FALSE
    /\ failAt = 0 /\ mergeOk = TRUE /\ list = NoList /\ sendPc = "none"

\* no formatConfig or writeConfig call
NoConf == user = <<>> /\ file = <<>> /\ result = <<>> /\ confPc = "none"

InitWith(cap) == InitSession(cap) /\ DefaultBuild /\ NoSend /\ NoConf

Init == InitWith(MaxSeq)

\* a macrotask runs only when no promise continuation is queued
Step(T, op, a, arg) ==
    /\ micro = 0
    /\ \E S \in {Collect(T)} : Within(S) /\ Apply(S, op, a, arg)

\* initQQBotAdapter: config() loads the file and records the snapshot, then
\* cfg.forEach(bot => createBot(bot)), which is not awaited
Startup(rec) ==
    /\ ~started
    /\ LET s1 == [Cur EXCEPT !.started = TRUE, !.lastApplied = rec,
                             !.hist.written = rec]
       IN  Step(IF rec.present THEN createBot(s1, rec, FreeSlot) ELSE s1,
                "createBot", 0, Arg(0))

\* a createBot call of some applyConfigChange run: the identity was added or
\* changed and its event.type is not 0
ReloadCreate(type) ==
    /\ started
    /\ type # 0
    /\ botInstances.present \/ FreeSlot # 0
    /\ Step(createBot(Cur, [present |-> TRUE, type |-> type, mode |-> 0], FreeSlot),
            "createBot", 0, Arg(type))

\* the stop of some applyConfigChange run: a removed identity whose event.type
\* was 2
ReloadRemoved ==
    /\ started
    /\ Step(stopWebSocketConnection(Cur), "stop", 0, Arg(0))

\* the watch callback: the file has changed and now holds the record now
FileChange(now) ==
    /\ started
    /\ pendingNow # <<now>> \/ ~debounceTimer
    /\ Step([Cur EXCEPT !.pendingNow = <<now>>, !.debounceTimer = TRUE,
                         !.hist.written = now],
            "change", 0, Arg(0))

\* the debounce timer fires: applyConfigChange().catch(() => {})
DebounceFire(byValue) ==
    /\ debounceTimer
    /\ Cardinality(runs) < MaxRuns
    /\ botInstances.present \/ FreeSlot # 0
    /\ Step(applyConfigChange([Cur EXCEPT !.debounceTimer = FALSE], byValue, FreeSlot),
            "apply", 0, Arg(0))

\* getAccessToken settles
TokenReturn(c, ok) ==
    /\ calls[c].pc = "token"
    /\ Step(afterToken(Cur, c, ok), "token", 0, Arg(c))

\* api.getMe() settles
GetMeReturn(c, ok) ==
    /\ calls[c].pc = "getMe"
    /\ Step(afterGetMe(Cur, c, ok), "getMe", 0, Arg(c))

\* api.getGateway() settles
GatewayReturn(a, outcome) ==
    /\ att[a].pc = "gateway"
    /\ Step(onGateway(Cur, a, outcome), "gateway", a, Arg(0))

\* the transport connects
SocketOpen(a) ==
    /\ att[a].sock = "connecting"
    /\ LET s0 == [Cur EXCEPT !.att[a].sock = "open"]
       IN  Step(IF att[a].listeners THEN onOpen(s0, a) ELSE s0, "open", a, Arg(0))

\* the session of attempt a is the live one
Live(a) == att[a].listeners /\ attemptSeq = a /\ cache.conn = a

\* a frame arrives; without a listener nothing runs
DeliverFrame(a, f) ==
    /\ att[a].sock \in {"open", "closing"}
    /\ Step(IF att[a].listeners THEN onMessage(Cur, a, f) ELSE Cur,
            "message", a, IF Live(a) THEN [arg |-> f.op, s |-> f.s, d |-> f.d]
                                     ELSE Arg("ignored"))

\* a heartbeat interval fires: socket.send({op: Heartbeat, d: lastSeq})
HeartbeatTick(a) ==
    /\ a \in timers
    /\ Step(send(Cur, a, "Heartbeat", att[a].lastSeq), "tick", a, Arg(0))

\* the transport fails; the 'close' event follows
SocketError(a) ==
    /\ att[a].sock \in {"connecting", "open", "closing"}
    /\ att[a].listeners
    /\ LET s1 == onError(Cur, a)
       IN  Step([s1 EXCEPT !.att[a].sock = socketClose(@)], "error", a, Arg(0))

\* the transport is gone
SocketCloseEvent(a, code) ==
    /\ att[a].sock \in {"connecting", "open", "closing", "failing"}
    /\ LET s0 == [Cur EXCEPT !.att[a].sock = "closed"]
       IN  IF att[a].listeners
           THEN Step(onClose(s0, a, code), "close", a, Arg(code))
           ELSE code = 1006 /\ Step(s0, "close", a, Arg(0))

\* connectionTimeout fires (it is cleared when the promise is resolved)
Timeout(a) ==
    /\ att[a].result = "pending"
    /\ Step(onTimeout(Cur, a), "timeout", a, Arg(0))

\* a backoff delay of attemptReconnect elapses: one that a stop() has found
\* pending (old) or one registered since
DelayElapsed(k, old) ==
    /\ IF old THEN hist.stoppedDelays[k] > 0
              ELSE delays[k] > hist.stoppedDelays[k]
    /\ Step(afterDelay([Cur EXCEPT !.delays[k] = @ - 1,
                                   !.hist.stoppedDelays[k] =
                                       IF old THEN @ - 1 ELSE @], k),
            IF old THEN "delay-stopped" ELSE "delay", 0, Arg(k))

\* the awaiter of a settled createWebSocketConnection continues
Continuation ==
    /\ micro # 0
    /\ LET a == micro
           s0 == [Cur EXCEPT !.micro = 0]
       IN  \E S \in {Collect(CASE att[a].by = "reconnect" -> afterReconnect(s0, a)
                                 [] att[a].by = "existing" -> afterExisting(s0, a)
                                 [] OTHER -> afterWs(s0, a))} : Apply(S, "continue", a, Arg(0))

\* createWebSocketConnection called from outside the module
Open == Step(createWebSocketConnection(Cur, 2, "manual", 0), "open()", 0, Arg(0))

\* stopWebSocketConnection called from outside the module
Stop == Step(stopWebSocketConnection(Cur), "stop()", 0, Arg(0))

\* The session manager with its two exported functions called at any time.
Next ==
    \/ Open
    \/ Stop
    \/ \E a \in Ids, outcome \in GatewayOutcomes : GatewayReturn(a, outcome)
    \/ \E a \in Ids : SocketOpen(a)
    \/ \E a \in Ids, f \in Frames(Opcodes) : DeliverFrame(a, f)
    \/ \E a \in Ids : HeartbeatTick(a)
    \/ \E a \in Ids : SocketError(a)
    \/ \E a \in Ids, code \in CloseCodes : SocketCloseEvent(a, code)
    \/ \E a \in Ids : Timeout(a)
    \/ \E k \in 1..maxAttempts, old \in BOOLEAN : DelayElapsed(k, old)
    \/ Continuation

Spec == Init /\ [][Next]_vars

\* The session manager up to MaxMid attempts, under a gateway that answers
\* every connection with READY or Reconnect frames or drops it abnormally.
NextStop ==
    \/ Open
    \/ Stop
    \/ \E a \in Ids, outcome \in {"ok", "throw"} : GatewayReturn(a, outcome)
    \/ \E a \in Ids : SocketOpen(a)
    \/ \E a \in Ids, op \in {"READY", "Reconnect"} :
          DeliverFrame(a, [op |-> op, s |-> Null, d |-> 0])
    \/ \E a \in Ids : SocketCloseEvent(a, 1006)
    \/ \E k \in 1..maxAttempts, old \in BOOLEAN : DelayElapsed(k, old)
    \/ Continuation

SpecStop == InitWith(MaxMid) /\ [][NextStop]_vars

\* The first open() only
OpenFirst == attemptSeq = 0 /\ Open

\* The session manager left to itself after one open(), up to MaxDeep
\* attempts: the platform serves the first connection and then its gateway
\* address can no longer be fetched.
NextChain ==
    \/ OpenFirst
    \/ GatewayReturn(1, "ok")
    \/ \E a \in Ids : GatewayReturn(a, "throw")
    \/ \E a \in Ids : SocketOpen(a)
    \/ \E a \in Ids, op \in {"READY", "Reconnect"} :
          DeliverFrame(a, [op |-> op, s |-> Null, d |-> 0])
    \/ \E a \in Ids : SocketCloseEvent(a, 1006)
    \/ \E k \in 1..maxAttempts : DelayElapsed(k, FALSE)
    \/ Continuation

SpecChain == InitWith(MaxDeep) /\ [][NextChain]_vars

\* The session manager left to itself after one open(), under a platform that
\* serves every connection and whose transport can fail at any time.  The
\* event loop runs every timer that is due and every promise continuation.
NextLive ==
    \/ OpenFirst
    \/ \E a \in Ids : GatewayReturn(a, "ok")
    \/ \E a \in Ids : SocketOpen(a)
    \/ \E a \in Ids, f \in Frames({"Hello", "READY", "Dispatch"}) : DeliverFrame(a, f)
    \/ \E a \in Ids : HeartbeatTick(a)
    \/ \E a \in Ids : SocketError(a)
    \/ \E a \in Ids : SocketCloseEvent(a, 1006)
    \/ \E k \in 1..maxAttempts : DelayElapsed(k, FALSE)
    \/ Continuation

\* One open() in either domain (guildMode) and with either copy of the
\* session manager, over a gateway that serves the connection.  The two
\* copies differ in the frames they send and in their auto-reconnect, which
\* no step of this specification reaches.
InitIdentify ==
    /\ InitSession(MaxSeq)
    /\ guildMode \in 0..1
    /\ hardcoded \in BOOLEAN
    /\ NoSend /\ NoConf

NextIdentify ==
    \/ OpenFirst
    \/ \E a \in Ids : GatewayReturn(a, "ok")
    \/ \E a \in Ids : SocketOpen(a)
    \/ \E a \in Ids, f \in Frames({"Hello", "READY", "Dispatch", "HeartbeatACK"}) :
          DeliverFrame(a, f)
    \/ \E a \in Ids : HeartbeatTick(a)
    \/ \E a \in Ids : Timeout(a)

SpecIdentify == InitIdentify /\ [][NextIdentify]_vars

\* the element sequences of at most MaxElems elements
Sends == UNION {[1..n -> Elements] : n \in 0..MaxElems}

\* the variables of the session manager, of createBot and of the reload
restVars == <<attemptSeq, reconnectAttempts, cache, timers, att, delays, micro,
              handlers, botInstances, registerCount, lastApplied, pendingNow,
              debounceTimer, runs, guildMode, hardcoded, calls, hist, started,
              last>>

\* One sendMsg call: any scene, either pipeline, any element sequence, a
\* network whose first or second call may throw, a QR merge that may fail.
InitSend ==
    /\ InitSession(MaxSeq) /\ DefaultBuild
    /\ contact \in Scenes
    /\ elements \in Sends
    /\ markdownMode \in BOOLEAN
    /\ failAt \in 0..MaxFail
    /\ mergeOk \in BOOLEAN
    /\ list = NoList
    /\ sendPc = "called"
    /\ NoConf

\* the call runs to its end: it returns or it throws
SendMsg ==
    /\ sendPc = "called"
    /\ list' = sendMsg(contact, elements)
    /\ sendPc' = IF list'.threw THEN "threw" ELSE "returned"
    /\ UNCHANGED <<contact, elements, markdownMode, failAt, mergeOk>>
    /\ UNCHANGED restVars
    /\ UNCHANGED confVars

NextSend == SendMsg

SpecSend == InitSend /\ [][NextSend]_vars

\* the configuration lists of at most MaxItems records
Configs == UNION {[1..n -> Items] : n \in 0..MaxItems}

\* A list is given: the content of a hand-written config.json, or the list
\* the configuration page saves.
InitConfig ==
    /\ InitSession(MaxSeq) /\ DefaultBuild /\ NoSend
    /\ user \in Configs
    /\ file = <<>> /\ result = <<>>
    /\ confPc = "given"

\* config(): the list is the content of config.json
FormatConfig ==
    /\ confPc = "given"
    /\ result' = formatConfig(user)
    /\ confPc' = "formatted"
    /\ UNCHANGED <<user, file>>
    /\ UNCHANGED restVars /\ UNCHANGED sendVars

\* writeConfig(config)
WriteConfig ==
    /\ confPc = "given"
    /\ file' = JSONstringify(cleanConfigForWrite(formatConfig(user)))
    /\ confPc' = "written"
    /\ UNCHANGED <<user, result>>
    /\ UNCHANGED restVars /\ UNCHANGED sendVars

\* config() after the save: the file is read and formatted
LoadConfig ==
    /\ confPc = "written"
    /\ result' = formatConfig(requireFileSync(file))
    /\ confPc' = "loaded"
    /\ UNCHANGED <<user, file>>
    /\ UNCHANGED restVars /\ UNCHANGED sendVars

NextConfig == FormatConfig \/ WriteConfig \/ LoadConfig

SpecConfig == InitConfig /\ [][NextConfig]_vars

\* The session manager with open() and stop() called at any time, over a
\* gateway that may fail, answer late or not at all.  The event loop runs the
\* connectionTimeout of every call that is still pending, and every promise
\* continuation.
NextResolve ==
    \/ Open
    \/ Stop
    \/ \E a \in Ids, outcome \in GatewayOutcomes : GatewayReturn(a, outcome)
    \/ \E a \in Ids : SocketOpen(a)
    \/ \E a \in Ids, op \in {"READY", "Reconnect"} :
          DeliverFrame(a, [op |-> op, s |-> Null, d |-> 0])
    \/ \E a \in Ids : SocketError(a)
    \/ \E a \in Ids : SocketCloseEvent(a, 1006)
    \/ \E a \in Ids : Timeout(a)
    \/ \E k \in 1..maxAttempts, old \in BOOLEAN : DelayElapsed(k, old)
    \/ Continuation

SpecResolve ==
    /\ Init /\ [][NextResolve]_vars
    /\ \A a \in 1..MaxSeq : WF_vars(Timeout(a))
    /\ WF_vars(Continuation)

SpecLive ==
    /\ Init /\ [][NextLive]_vars
    /\ WF_vars(\E k \in 1..maxAttempts : DelayElapsed(k, FALSE))
    /\ WF_vars(Continuation)

\* close() as a function of the state: two sessions whose sockets exist, and
\* any cache entry (none, of session 1, of session 2; with or without a
\* heartbeat timer), including the combinations in which the session that is
\* closed is not the one in the cache.
InitClose ==
    /\ attemptSeq = MaxSeq
    /\ reconnectAttempts = 0
    /\ cache \in {c \in [conn : 0..MaxSeq, timer : 0..MaxSeq] : c.timer \in {0, c.conn}}
    /\ timers = {cache.timer} \ {0}
    /\ att \in [1..MaxSeq ->
                 {[NoAtt EXCEPT !.pc = "done", !.sock = k, !.listeners = l,
                                !.result = "true", !.isReady = r] :
                    k \in {"connecting", "open", "closing"}, l \in BOOLEAN,
                    r \in BOOLEAN}]
    /\ cache.conn # 0 => att[cache.conn].sock \in {"open", "closing"}
    /\ delays = [k \in 1..maxAttempts |-> 0]
    /\ micro = 0
    /\ handlers = 0
    /\ botInstances = NoInst
    /\ registerCount = 0
    /\ lastApplied = Absent
    /\ pendingNow = <<>>
    /\ debounceTimer = FALSE
    /\ runs = {}
    /\ DefaultBuild /\ NoSend /\ NoConf
    /\ calls = [c \in Slots |-> NoCall]
    /\ hist = NoHist
    /\ started = FALSE
    /\ last = NoLast

\* ws.close(isClose) is called on the session of attempt a
CloseCall(a) ==
    /\ att[a].sock # "closed"
    /\ Step(close(Cur, a), "close()", a, Arg(0))

NextClose == \E a \in Ids : CloseCall(a)

SpecClose == InitClose /\ [][NextClose]_vars

\* The session manager called by createBot and the configuration reload only,
\* under a gateway that sends READY and Reconnect frames.
NextBot ==
    \/ \E rec \in {Absent} \cup Records : Startup(rec)
    \/ \E type \in 1..2 : ReloadCreate(type)
    \/ ReloadRemoved
    \/ \E c \in Slots, ok \in BOOLEAN : TokenReturn(c, ok)
    \/ \E c \in Slots, ok \in BOOLEAN : GetMeReturn(c, ok)
    \/ \E a \in Ids, outcome \in {"ok", "throw"} : GatewayReturn(a, outcome)
    \/ \E a \in Ids : SocketOpen(a)
    \/ \E a \in Ids, op \in {"READY", "Reconnect"} :
          DeliverFrame(a, [op |-> op, s |-> Null, d |-> 0])
    \/ \E a \in Ids, code \in {1000, 1006} : SocketCloseEvent(a, code)
    \/ \E a \in Ids : Timeout(a)
    \/ \E k \in 1..maxAttempts, old \in BOOLEAN : DelayElapsed(k, old)
    \/ Continuation

SpecBot == Init /\ [][NextBot]_vars

\* The configuration watch with its debounce timer and its applyConfigChange
\* runs, over a gateway that answers, sends READY or stays silent until the
\* connection timeout, and closes sockets normally.
NextReload ==
    \/ \E rec \in {Absent} \cup Records : Startup(rec)
    \/ \E now \in {Absent} \cup Records : FileChange(now)
    \/ \E byValue \in BOOLEAN : DebounceFire(byValue)
    \/ \E c \in Slots, ok \in BOOLEAN : TokenReturn(c, ok)
    \/ \E c \in Slots, ok \in BOOLEAN : GetMeReturn(c, ok)
    \/ \E a \in Ids : GatewayReturn(a, "ok")
    \/ \E a \in Ids : SocketOpen(a)
    \/ \E a \in Ids : DeliverFrame(a, [op |-> "READY", s |-> Null, d |-> 0])
    \/ \E a \in Ids : SocketCloseEvent(a, 1000)
    \/ \E a \in Ids : Timeout(a)
    \/ Continuation

SpecReload == Init /\ [][NextReload]_vars

\* ------------------------------------------------------------------ claims

\* the sockets that are open (or closing) with their listeners attached
LiveSockets == {a \in Ids : att[a].sock \in {"open", "closing"} /\ att[a].listeners}

\* the attempt started last (0: none yet)
Latest == IF \E a \in Ids : att[a].pc # "none"
          THEN CHOOSE a \in Ids : att[a].pc # "none"
                                   /\ \A b \in Ids : att[b].pc # "none" => b <= a
          ELSE 0

\* C1: once stopWebSocketConnection has returned, a 'message' frame on a socket
\* that existed at that call changes neither the cache entry nor the
\* heartbeat timers and emits no event.
C1_StoppedSocketsInert ==
    [][\A a \in hist.stopped :
          (last'.op = "message" /\ last'.a = a)
              => cache' = cache /\ timers' = timers /\ last'.emit = 0]_vars

\* C1 witness: a frame has arrived on a socket that a stop() had found
C1_Witness == last.op = "message" /\ last.a \in hist.stopped

\* C2: at most one socket is open with its listeners attached, and it is the
\* live session (current attempt, cache entry); a frame on any other socket
\* emits no event and changes no shared state.
C2_OneLiveSocket ==
    /\ [](Cardinality(LiveSockets) <= 1 /\ \A a \in LiveSockets : Live(a))
    /\ [][(last'.op = "message" /\ ~Live(last'.a))
            => /\ last'.emit = 0
               /\ UNCHANGED <<attemptSeq, reconnectAttempts, cache, timers, delays>>]_vars

\* C2 witness: a frame has arrived on a socket while another one is live
C2_Witness ==
    /\ last.op = "message" /\ last.arg = "ignored"
    /\ \E b \in Ids : b # last.a /\ Live(b) /\ att[b].sock = "open"

\* C3: the cache entry is the socket of the attempt started last; a promise of
\* an earlier attempt never resolves true; a socket of an earlier attempt that
\* opens is closed and does not enter the cache.
C3_LatestAttemptWins ==
    /\ [](cache.conn # 0 => cache.conn = Latest)
    /\ [][\A a \in Ids : (att[a].result = "pending" /\ att'[a].result = "true")
                              => a = Latest]_vars
    /\ [][(last'.op = "open" /\ last'.a < Latest)
            => /\ cache' = cache
               /\ ~att'[last'.a].listeners
               /\ att'[last'.a].sock = "closing"]_vars

\* C3 witness: the socket of an earlier attempt has opened after a later
\* attempt was started
C3_Witness == last.op = "open" /\ last.a < Latest /\ att[last.a].sock = "closing"

\* C4: a pending promise resolves true exactly in the step in which the live
\* session processes a READY frame on its socket; any other resolution is
\* false; a resolved promise never changes, whatever frame arrives later.
C4_TrueIffReady ==
    [][\A a \in Ids :
          /\ att[a].result = "pending"
               => /\ att'[a].result \in {"pending", "true", "false"}
                  /\ att'[a].result = "true"
                       <=> (last'.op = "message" /\ last'.a = a /\ last'.arg = "READY")
          /\ att[a].result \in {"true", "false"} => att'[a].result = att[a].result]_vars

\* C4 witness: the live session has processed READY after its promise had
\* resolved false
C4_Witness ==
    /\ last.op = "message" /\ last.arg = "READY"
    /\ att[last.a].result = "false" /\ att[last.a].isReady

\* C5: the reconnect counter, when present, is within 1..5, and without an
\* external call no more than 5 connection attempts are started by
\* auto-reconnect after a disconnect.
C5_AtMostFiveReconnects ==
    /\ reconnectAttempts \in 0..maxAttempts
    /\ hist.autoOpens <= maxAttempts

\* C6: a backoff delay that elapses starts no connection attempt when the
\* reconnect counter differs from the value it registered, nor when
\* stopWebSocketConnection was called while it was pending.
C6_SkippedAfterStop ==
    [][\A k \in 1..maxAttempts :
          /\ (delays'[k] < delays[k] /\ reconnectAttempts # k) => att' = att
          /\ hist.stoppedDelays'[k] < hist.stoppedDelays[k] => att' = att]_vars

\* C7: when a handshake completes, the reconnect counter is absent afterwards:
\* at once when the attempt was started by createBot or open(), and when the
\* awaiting attemptReconnect has continued when it was started by auto-reconnect.
C7_HandshakeClearsCounter ==
    [][\A a \in Ids :
          /\ (att[a].result = "pending" /\ att'[a].result = "true"
                 /\ att[a].by # "reconnect") => reconnectAttempts' = 0
          /\ (micro = a /\ att[a].by = "reconnect" /\ att[a].result = "true")
                 => reconnectAttempts' = 0]_vars

\* C8: when the live session processes a Reconnect frame, socket.close() has
\* been called on its socket and attemptReconnect(config, client, 0) has
\* registered attempt 1 and started its backoff delay.
C8_ReconnectFrame ==
    [][(last'.op = "message" /\ last'.arg = "Reconnect")
         => /\ att'[last'.a].sock = "closing"
            /\ reconnectAttempts' = 1
            /\ delays' = [delays EXCEPT ![1] = @ + 1]]_vars

\* C8 witness: the live session has processed a Reconnect frame
C8_Witness ==
    /\ last.op = "message" /\ last.arg = "Reconnect"
    /\ att[last.a].sock = "closing" /\ reconnectAttempts = 1 /\ delays[1] >= 1

\* C9: when the live session processes an InvalidSession frame, socket.close()
\* is called and no reconnect attempt is scheduled, neither by the frame nor
\* by the 'close' event of that socket.
C9_InvalidSessionNoRetry ==
    [][/\ (last'.op = "message" /\ last'.arg = "InvalidSession")
           => /\ att'[last'.a].sock = "closing"
              /\ delays' = delays /\ reconnectAttempts' = reconnectAttempts
       /\ (last'.op = "close" /\ last'.a \in hist.invalid)
           => delays' = delays /\ reconnectAttempts' = reconnectAttempts]_vars

\* C10: when the 'close' event of the current session fires, a pending promise
\* resolves false and a resolved one keeps its value; attempt 1 of a reconnect
\* is scheduled if the session was ready and the code is neither 1000 nor
\* 1001, and nothing is scheduled otherwise.
C10_CloseEvent ==
    [][\A a \in Ids :
          (last'.op = "close" /\ last'.a = a /\ att[a].listeners /\ attemptSeq = a)
            => /\ att'[a].result = IF att[a].result = "pending" THEN "false"
                                   ELSE att[a].result
               /\ IF att[a].isReady /\ last'.arg \notin {1000, 1001}
                  THEN /\ reconnectAttempts' = 1
                       /\ delays' = [delays EXCEPT ![1] = @ + 1]
                  ELSE /\ reconnectAttempts' = reconnectAttempts
                       /\ delays' = delays]_vars

\* C10 witness: the session that was ready has been closed with code 1006
C10_Witness ==
    /\ last.op = "close" /\ last.ready /\ last.arg = 1006
    /\ reconnectAttempts = 1 /\ delays[1] >= 1

\* C11: after a socket error or an abnormal close on a session that had
\* reached Ready and was not stopped, a new connection attempt is eventually
\* started (attempts below the cap of the model), and the promise of open()
\* is never rejected.
C11_TransportFailureRecovered ==
    /\ \A a \in 1..(MaxSeq - 1) :
          (last.op \in {"error", "close"} /\ last.a = a /\ last.ready)
             ~> (attemptSeq > a)
    /\ [](\A a \in Ids : att[a].result \in {"none", "pending", "true", "false"})

\* the Heartbeat frame that a tick of the timer of socket a sends
Heartbeat(a) == <<[to |-> a, op |-> "Heartbeat", d |-> att[a].lastSeq]>>

\* C12 as stated: a heartbeat timer is started only by the step that processes
\* READY, a tick sends a Heartbeat frame only on a session that is ready, and
\* that frame carries the last-seen sequence number.
C12_HeartbeatFromReady ==
    [][/\ \A a \in Ids : (a \in timers' /\ a \notin timers)
            => (last'.op = "message" /\ last'.a = a /\ last'.arg = "READY")
       /\ last'.op = "tick"
            => (att[last'.a].isReady /\ last'.sent = Heartbeat(last'.a))]_vars

\* C12 amended: the heartbeat timer of a session is started by the step in
\* which the live session processes Hello, and by no other step; every tick
\* of it sends one Heartbeat frame carrying the last-seen sequence number,
\* whether or not the session is ready; Heartbeat frames are sent by ticks only.
C12_HeartbeatFromHello ==
    [][/\ \A a \in Ids : (a \in timers' /\ a \notin timers)
            => (last'.op = "message" /\ last'.a = a /\ last'.arg = "Hello")
       /\ (last'.op = "message" /\ last'.arg = "Hello")
            => (last'.a \in timers' /\ cache'.timer = last'.a)
       /\ last'.op = "tick"
            => (/\ att[last'.a].heartbeatInterval \in Intervals
                /\ last'.sent = Heartbeat(last'.a))
       /\ last'.op # "tick"
            => \A i \in 1..Len(last'.sent) : last'.sent[i].op # "Heartbeat"]_vars

\* C12 witness: a tick on a session that is not ready has sent a Heartbeat
\* frame carrying sequence number 2
C12_Witness ==
    /\ last.op = "tick" /\ ~att[last.a].isReady
    /\ last.sent = <<[to |-> last.a, op |-> "Heartbeat", d |-> 2]>>

\* C13: every running heartbeat timer is the one recorded in the cache entry
\* and belongs to the session of that entry; the step in which a session stops
\* being the cache entry (closed, stopped or superseded) leaves no timer of it
\* running; only the session of the cache entry sends Heartbeat frames.
C13_TimerOwnedByCacheEntry ==
    /\ [](/\ timers = {cache.timer} \ {0}
          /\ cache.timer # 0 => cache.timer = cache.conn)
    /\ [][\A a \in Ids : (cache.conn = a /\ cache'.conn # a) => a \notin timers']_vars
    /\ [][last'.op = "tick" => cache.conn = last'.a]_vars

\* C13 witness: a call from outside a socket handler (open(), stop() or a
\* reconnect) has displaced the cached session and cleared its running timer
C13_Witness ==
    /\ last.op = "other" /\ last.cleared # {}
    /\ \A a \in last.cleared : att[a].sock = "closing" /\ cache.conn # a

\* C14: close() of a session removes the listeners of its socket and closes
\* it; it deletes the cache entry and clears the entry's heartbeat timer when
\* the entry is that session's own, and leaves the cache entry and every
\* timer unchanged when it is not.
C14_CloseOwnEntryOnly ==
    [][\A a \in Ids : (last'.op = "close()" /\ last'.a = a)
          => /\ ~att'[a].listeners
             /\ att'[a].sock = socketClose(att[a].sock)
             /\ IF cache.conn = a
                THEN cache' = NoCache /\ timers' = timers \ {cache.timer}
                ELSE cache' = cache /\ timers' = timers]_vars

\* C14 witness: an older session has been closed while the cache held a
\* newer session's entry with a running timer, and both are still there
C14_Witness ==
    /\ last.op = "close()" /\ cache.conn > last.a
    /\ cache.timer = cache.conn /\ timers = {cache.conn}

\* the Identify frame sent on socket a
Identify(a) == [to |-> a, op |-> "Identify", d |-> identifyIntents(Cur)]

\* C15: the step in which the live session processes a Hello frame records
\* the frame's heartbeat interval and sends exactly one Identify frame on the
\* same socket, so before any later frame is processed; no other step sends
\* an Identify frame.
C15_HelloThenIdentify ==
    [][/\ (last'.op = "message" /\ last'.arg = "Hello")
            => /\ att'[last'.a].heartbeatInterval = last'.d
               /\ last'.sent = <<Identify(last'.a)>>
       /\ (\E i \in 1..Len(last'.sent) : last'.sent[i].op = "Identify")
            => (last'.op = "message" /\ last'.arg = "Hello")]_vars

\* C15 witness: the live session has processed a Hello frame with interval 2
C15_Witness ==
    /\ last.op = "message" /\ last.arg = "Hello" /\ last.d = 2
    /\ att[last.a].heartbeatInterval = 2 /\ last.sent = <<Identify(last.a)>>

\* C16: the step in which the live session processes a frame sets the
\* last-seen sequence to the frame's s when it carries one and leaves it
\* unchanged otherwise, and an event emitted for that frame is emitted with
\* the last-seen sequence already updated.
C16_SeqBeforeDispatch ==
    [][\A a \in Ids : (last'.op = "message" /\ last'.a = a /\ last'.arg # "ignored")
          => /\ att'[a].lastSeq = IF last'.s # Null THEN last'.s ELSE att[a].lastSeq
             /\ last'.emit = a => last'.emitSeq = att'[a].lastSeq]_vars

\* C16 witness: a Dispatch frame with s = 2 has been emitted
C16_Witness ==
    /\ last.op = "message" /\ last.arg = "Dispatch" /\ last.s = 2
    /\ last.emit = last.a /\ last.emitSeq = 2 /\ att[last.a].lastSeq = 2

\* the connectionTimeout of attempt a has just resolved its promise false and
\* has changed nothing else
TimeoutOnlyResolves(a) ==
    /\ att[a].result = "pending" /\ att'[a].result = "false"
    /\ \A b \in Ids : /\ att'[b].sock = att[b].sock
                       /\ att'[b].listeners = att[b].listeners
                       /\ att'[b].isReady = att[b].isReady
                       /\ b # a => att'[b].result = att[b].result
    /\ UNCHANGED <<attemptSeq, reconnectAttempts, cache, timers, delays>>

\* some backoff delay has been registered by the step
Scheduled == \E k \in 1..maxAttempts : delays'[k] > delays[k]

C18_RegisteredOnce == registerCount <= 1

\* C19: when an applied configuration disables the identity (event.type 0) or
\* no longer lists it, at startup or by hot reload, the runtime is torn down:
\* no session is cached and no listener is left on the event channel.
C19_DisabledTornDown ==
    [][(lastApplied' # lastApplied
          /\ (~lastApplied'.present \/ lastApplied'.type = 0))
         => (cache'.conn = 0 /\ handlers' = 0)]_vars

\* C20: at no time do two applyConfigChange runs await a createBot call for
\* the identity.
C20_ReloadSequential == Cardinality(runs) <= 1

\* the first-time createBot call of slot c has thrown in this step: it
\* awaited the token or the profile and has ended without registering
Threw(c) ==
    /\ calls[c].pc \in {"token", "getMe"} /\ calls'[c].pc = "idle"
    /\ registerCount' = registerCount

\* C21: when a first-time createBot call rejects, the identity has no registry
\* entry, no event listener and no cache entry, every connection attempt
\* started so far is stale, and the applyConfigChange run that awaited the
\* call has ended without recording its snapshot.
C21_FailedCreateLeavesNothing ==
    [][\A c \in Slots : Threw(c) =>
          /\ ~botInstances'.present /\ handlers' = 0 /\ cache'.conn = 0
          /\ timers' = {}
          /\ \A a \in Ids : att'[a].pc # "none" => a < attemptSeq'
          /\ \A r \in runs : r.c = c => (r \notin runs' /\ lastApplied' = lastApplied)]_vars

\* C21 witness: a first-time createBot call has failed while the identity was
\* registered and had a ready session, which the catch block has closed
C21_Witness ==
    /\ ~botInstances.present /\ handlers = 0 /\ cache.conn = 0
    /\ registerCount = 1 /\ runs = {}
    /\ \E a \in Ids : att[a].isReady /\ att[a].sock = "closing" /\ a < attemptSeq
    /\ lastApplied # Absent /\ \A c \in Slots : calls[c].pc = "idle"

\* C30: when the 'open' event of the current attempt fires, no entry is in the
\* cache any more, no heartbeat timer runs and no other socket is open, and
\* the socket becomes the cache entry; when the attempt is stale, the socket
\* is closed without its listeners and cache and timers are left unchanged.
C30_OpenEvent ==
    [][last'.op = "open" =>
         LET a == last'.a
         IN  IF attemptSeq = a
             THEN /\ cache.conn = 0 /\ timers = {}
                  /\ \A b \in Ids \ {a} : att[b].sock # "open"
                  /\ cache' = [conn |-> a, timer |-> 0]
                  /\ att'[a].sock = "open"
             ELSE /\ att'[a].sock = "closing" /\ ~att'[a].listeners
                  /\ cache' = cache /\ timers' = timers]_vars

\* C30 witness: the socket of the current attempt has opened and is the cache
\* entry, after the ready session cached before it was closed
C30_Witness ==
    /\ last.op = "open" /\ cache.conn = last.a /\ attemptSeq = last.a
    /\ \E b \in Ids : b < last.a /\ att[b].isReady /\ att[b].sock = "closing"

\* the delays that the claim lists for k = 0..5
Backoff == <<1000, 2000, 4000, 8000, 16000, 16000>>

\* C28: the backoff timer that attemptReconnect(currentAttempt = k) sets lasts
\* min(1000 * 2^k, 16000) ms, which is 1000, 2000, 4000, 8000, 16000 for the
\* attempts that are made and 16000 for k = 5, and never more than 16000 ms.
C28_BackoffDelays ==
    /\ \A k \in 1..maxAttempts :
          delays[k] > 0 => /\ hist.delayMs[k] = Backoff[k]
                           /\ hist.delayMs[k] <= 16000
    /\ \A k \in 0..maxAttempts : delay(k) = Backoff[k + 1] /\ delay(k) <= 16000

\* C28 witness: the timer of the fifth attempt (k = 4) is pending, after the
\* four before it have elapsed
C28_Witness ==
    /\ delays[5] > 0 /\ hist.delayMs[5] = 16000 /\ reconnectAttempts = 5
    /\ attemptSeq >= 5

\* the bits that are set in a bitmask
Bits(n) == {i \in 0..30 : (n \div 2^i) % 2 = 1}

\* C29: the intents of every Identify frame that is sent hold bits 0, 1, 12
\* and 25, bit 9 when guildMode is 1 and bit 30 otherwise, and no other bit.
C29_IdentifyIntents ==
    [][\A i \in 1..Len(last'.sent) : last'.sent[i].op = "Identify" =>
          Bits(last'.sent[i].d) =
              {0, 1, 12, 25} \cup (IF guildMode = 1 THEN {9} ELSE {30})]_vars

\* the payloads of the send requests of the call, in the order of the requests
Sent ==
    LET q == SelectSeq(list.requests, LAMBDA r : r.op = "send")
    IN  [i \in 1..Len(q) |-> q[i].item]

\* the call is a group or private-chat send with a passive-reply binding
Bound ==
    /\ list.built /\ contact \in {"friend", "group"}
    /\ list.pasmsg.msg_id # ""
    /\ ~(list.pasmsg.is_wakeup /\ contact = "friend")

\* C22: when a send call has a passive-reply binding, the payloads it sends
\* carry strictly increasing sequence numbers (msg_seq), in the direct and in
\* the template pipeline.
C22_SeqIncreasing ==
    Bound => \A i, j \in 1..Len(Sent) :
                 i < j => /\ Sent[i].msg_seq # Null /\ Sent[j].msg_seq # Null
                          /\ Sent[i].msg_seq < Sent[j].msg_seq

\* C23: in a private-chat send, when the draft's wakeup flag is set the draft's
\* message/event id is empty and no payload that is sent carries msg_id or
\* event_id, whatever the order of the reply and passive-reply elements; for
\* any other target the wakeup flag is never set.
C23_WakeupExclusive ==
    list.built =>
      /\ (contact = "friend" /\ list.pasmsg.is_wakeup) =>
            /\ list.pasmsg.msg_id = ""
            /\ \A i \in 1..Len(Sent) : Sent[i].msg_id = "" /\ Sent[i].event_id = ""
      /\ contact # "friend" =>
            /\ ~list.pasmsg.is_wakeup
            /\ \A i \in 1..Len(Sent) : ~Sent[i].is_wakeup

\* the elements of the call produced no payload: no text, no image, and for
\* a group or private chat no video
NoPayload ==
    /\ list.content = <<>>
    /\ IF contact \in {"direct", "guild"}
       THEN list.imageUrls = <<>> /\ list.imageFiles = <<>>
       ELSE /\ list.image = <<>>
            /\ \A i \in 1..Len(elements) : elements[i].type # "video"

\* C24: a send call of the direct pipeline that completes has sent at least
\* one payload; when the elements produced no payload, exactly one text
\* payload with the literal unsupported-message-type text was sent, and that
\* text is sent in no other case.
C24_NeverSendsNothing ==
    (sendPc = "returned" /\ ~markdownMode) =>
        /\ Len(Sent) >= 1
        /\ Len(Sent) = Len(list.list)
        /\ NoPayload => /\ Len(Sent) = 1
                        /\ Sent[1].kind = "text" /\ Sent[1].text = Unsupported.text
                        /\ Sent[1].media = NoImg /\ ~Sent[1].form
        /\ ~NoPayload => \A i \in 1..Len(Sent) : Sent[i].text # Unsupported.text

\* a send of a reply and a face in a group, a send of a video in a guild: the
\* literal text was sent, with the passive-reply binding if there is one
C24_Witness ==
    /\ sendPc = "returned" /\ ~markdownMode /\ NoPayload
    /\ Len(Sent) = 1 /\ Sent[1].text = Unsupported.text
    /\ \/ contact = "group" /\ Len(elements) = 2 /\ elements[1].type = "reply"
          /\ elements[2].type = "face" /\ Sent[1].msg_id = "r"
       \/ contact = "guild" /\ Len(elements) = 1 /\ elements[1].type = "video"

\* C25: sendMsg with a scene other than friend, group, guild and direct ends
\* with an error, with no upload and no send request issued and no draft built.
C25_UnknownSceneThrows ==
    (contact \notin {"friend", "group", "guild", "direct"}
       /\ sendPc \in {"returned", "threw"}) =>
        /\ sendPc = "threw"
        /\ list.requests = <<>>
        /\ ~list.built

\* a call with an unknown scene whose elements would need an upload and a send
C25_Witness ==
    /\ contact = "other" /\ sendPc = "threw" /\ list.requests = <<>>
    /\ markdownMode /\ failAt = 0
    /\ \E i \in 1..Len(elements) : elements[i].type = "video"

\* the position of the last record of the list with identity id
LastOf(u, id) ==
    CHOOSE k \in 1..Len(u) :
        /\ trim(u[k].appId) = id
        /\ \A m \in 1..Len(u) : trim(u[m].appId) = id => m <= k

\* C26: formatConfig returns at most one record per trimmed identity and none
\* with an empty identity; the record of an identity is the last record of
\* the input with that identity, with the defaults filled in.
C26_FormatConfigDedup ==
    confPc = "formatted" =>
        /\ \A i, j \in 1..Len(result) :
              trim(result[i].appId) = trim(result[j].appId) => i = j
        /\ \A i \in 1..Len(result) :
              /\ trim(result[i].appId) # ""
              /\ \E k \in 1..Len(user) :
                    /\ k = LastOf(user, trim(result[i].appId))
                    /\ result[i] = formatted(user[k])
        /\ \A k \in 1..Len(user) :
              trim(user[k].appId) # "" =>
                 \E i \in 1..Len(result) : trim(result[i].appId) = trim(user[k].appId)

\* two records with one identity, the first with an address of its own and an
\* event, the second with neither: the list collapsed to the second, filled
C26_Witness ==
    /\ confPc = "formatted" /\ Len(user) = 2
    /\ user[1].appId = " a" /\ user[2].appId = "a"
    /\ user[1].prodApi = "x" /\ user[1].event.has /\ user[1].event.type = 1
    /\ user[2].prodApi = Missing /\ ~user[2].event.has
    /\ result = <<[appId |-> "a", prodApi |-> def.prodApi, event |-> def.event]>>

\* C27: the list loaded from the file that writeConfig(c) wrote is
\* formatConfig(c); a key that the save removed is back with its default.
C27_WriteLoadRoundTrip ==
    confPc = "loaded" =>
        /\ result = formatConfig(user)
        /\ Len(file) = Len(result)
        /\ \A i \in 1..Len(file) :
              /\ "prodApi" \notin DOMAIN file[i] => result[i].prodApi = def.prodApi
              /\ "event" \notin DOMAIN file[i] => result[i].event = def.event
              /\ ("event" \in DOMAIN file[i] /\ "wsUrl" \notin DOMAIN file[i].event)
                    => result[i].event.wsUrl = def.event.wsUrl
              /\ ("event" \in DOMAIN file[i] /\ "wsToken" \notin DOMAIN file[i].event)
                    => result[i].event.wsToken = def.event.wsToken

\* a record saved with the default address and an event of type 0, and one
\* with type 1: the file holds only the identity of the first and only the
\* type of the second's event, and the load restored both
C27_Witness ==
    /\ confPc = "loaded" /\ Len(user) = 2 /\ Len(file) = 2
    /\ user[1].prodApi = def.prodApi /\ user[1].event.has /\ user[1].event.type = 0
    /\ DOMAIN file[1] = {"appId"}
    /\ "event" \in DOMAIN file[2] /\ DOMAIN file[2].event = {"type"}
    /\ result[1].event = def.event /\ result[1].prodApi = def.prodApi
    /\ result[2].event = [def.event EXCEPT !.type = 1]

\* the non-excluded bare URLs of the text elements of the call
Urls == UNION {Range(elements[i].urls) : i \in 1..Len(elements)}

\* C32: in a send of the direct pipeline that completes, whatever the target,
\* each bare URL of a text element is replaced by the placeholder in a text
\* that is sent, and its QR image, alone or in the composite, is in a payload
\* that is sent.
C32_UrlBecomesQr ==
    (sendPc = "returned" /\ ~markdownMode) =>
        \A url \in Urls :
            /\ \E i \in 1..Len(Sent) : \E k \in 1..Len(Sent[i].text) :
                  url \in Sent[i].text[k].replaced
            /\ \E i \in 1..Len(Sent) :
                  Sent[i].media.src \in {"qr", "merged"} /\ url \in Sent[i].media.of

\* C33: when the draft of a send that completes has a passive-reply id, every
\* payload of the call is sent with that id, in event_id when it is the id of
\* an event and in msg_id otherwise, and with the other of the two empty.
C33_IdOnEveryPayload ==
    (sendPc = "returned" /\ list.built /\ list.pasmsg.msg_id # "") =>
        \A i \in 1..Len(Sent) :
            IF list.pasmsg.msg_id = "e"
            THEN Sent[i].event_id = "e" /\ Sent[i].msg_id = ""
            ELSE Sent[i].msg_id = list.pasmsg.msg_id /\ Sent[i].event_id = ""

\* C31: the step in which the live session processes a Dispatch frame (READY
\* included) emits exactly one event, with the op, s, t and d of that frame;
\* the step of any other frame, of a frame that is not processed, and every
\* step that is not a frame, emits none.  One frame is one step, so the
\* events are emitted in the order in which the frames arrive.
C31_DispatchForwarded ==
    [][last'.emitted =
         IF last'.op = "message" /\ last'.arg \in {"READY", "Dispatch"}
         THEN <<[op |-> last'.arg, s |-> last'.s, d |-> last'.d]>>
         ELSE <<>>]_vars

\* C31 witness: a Dispatch frame without s arrived after one with s = 2, and
\* was emitted without s
C31_Witness ==
    /\ last.op = "message" /\ last.arg = "Dispatch" /\ last.s = Null
    /\ att[last.a].lastSeq = 2
    /\ last.emitted = <<[op |-> "Dispatch", s |-> Null, d |-> 0]>>

\* C34: when the call of the latest attempt has resolved false, the identity
\* has no session cache entry and no open socket with listeners attached.
C34_FailedOpenLeavesNothing ==
    \A a \in Ids :
        (att[a].result = "false" /\ a = attemptSeq) =>
            /\ cache.conn = 0
            /\ \A b \in Ids : ~(att[b].sock = "open" /\ att[b].listeners)

\* C35: at any time at most one auto-reconnect chain exists: a pending backoff
\* delay or an open started by attemptReconnect that is still awaited.
C35_OneReconnectChain == ChainCount(Cur) <= 1

\* a backoff delay elapses and attemptReconnect starts a connection
ReconnectStarts ==
    /\ SumTo(delays', maxAttempts) < SumTo(delays, maxAttempts)
    /\ attemptSeq' = attemptSeq + 1

\* C36: attemptReconnect starts a connection only when the cache holds no
\* session that has reached Ready (and whose socket is still open: a Ready
\* session that is already closing does not count against the property).
C36_ReconnectSparesReady ==
    [][ReconnectStarts =>
          (cache.conn = 0 \/ ~(att[cache.conn].isReady
                                /\ att[cache.conn].sock = "open"))]_vars

\* C37: every createWebSocketConnection call eventually resolves, and once it
\* has resolved its result never changes, for stale attempts as for the
\* latest one.
C37_ResolvesExactlyOnce ==
    /\ \A a \in 1..MaxSeq :
          (att[a].result = "pending") ~> (att[a].result \in {"true", "false"})
    /\ [][\A a \in 1..MaxSeq :
             att[a].result \in {"true", "false"} => att'[a].result = att[a].result]_vars

\* C37 witness: an attempt that a newer one has made stale and whose socket
\* has closed, its close handler returning without resolving, has just been
\* resolved by its connectionTimeout
C37_Witness ==
    /\ last.op = "timeout" /\ last.a < attemptSeq
    /\ att[last.a].result = "false" /\ att[last.a].sock = "closed"

\* C38: at most one listener is attached to the identity's event channel,
\* whatever createBot calls have run or are running.
C38_OneListener == handlers <= 1

\* nothing of a reload is left to run: no debounce timer is pending, no
\* applyConfigChange run and no createBot call awaits, no continuation is queued
Quiescent ==
    /\ started /\ ~debounceTimer /\ runs = {} /\ micro = 0
    /\ \A c \in Slots : calls[c].pc = "idle"

\* C39: once the file changes have stopped and every reload has run to its
\* end, lastApplied holds the configuration that was written last: no change
\* is lost, whether or not it arrived while an earlier apply was running.
C39_LastWrittenApplied ==
    (Quiescent /\ pendingNow = <<>>) => lastApplied = hist.written

\* Reloads of an identity that has no gateway session: the file holds a
\* record with event.type 0 or 1 and either markdown mode, or no record.
NextClient ==
    \/ \E rec \in {Absent} \cup Bots : Startup(rec)
    \/ \E now \in {Absent} \cup Bots : FileChange(now)
    \/ \E byValue \in BOOLEAN : DebounceFire(byValue)
    \/ \E c \in Slots, ok \in BOOLEAN : TokenReturn(c, ok)
    \/ \E c \in Slots, ok \in BOOLEAN : GetMeReturn(c, ok)

SpecClient == Init /\ [][NextClient]_vars

\* C40: the client of a registered identity holds the configuration of its
\* registry entry: its _config has the entry's markdown mode, and its class is
\* the one createClient chooses for that mode, also after createBot has
\* updated the entry in place.
C40_ClientHoldsNewConfig ==
    botInstances.present =>
        /\ botInstances.clientMode = botInstances.mode
        /\ botInstances.pipeline = createClient(botInstances.mode)

TypeOK ==
    /\ attemptSeq \in 0..Cardinality(Ids)
    /\ reconnectAttempts \in 0..maxAttempts
    /\ cache.conn \in {0} \cup Ids /\ cache.timer \in {0} \cup Ids
    /\ timers \subseteq Ids
    /\ micro \in {0} \cup Ids
    /\ lastApplied \in {Absent} \cup Records \cup Bots
    /\ pendingNow \in {<<>>} \cup {<<r>> : r \in {Absent} \cup Records \cup Bots}
    /\ debounceTimer \in BOOLEAN
    /\ guildMode \in 0..1 /\ hardcoded \in BOOLEAN
    /\ contact \in Scenes /\ elements \in Sends
    /\ markdownMode \in BOOLEAN /\ failAt \in 0..MaxFail /\ mergeOk \in BOOLEAN
    /\ sendPc \in {"none", "called", "returned", "threw"}
    /\ list.built \in BOOLEAN /\ list.threw \in BOOLEAN
    /\ confPc \in {"none", "given", "formatted", "written", "loaded"}
    /\ Len(user) <= MaxItems /\ Len(file) <= Len(user) /\ Len(result) <= Len(user)
    /\ runs \subseteq [now : Records \cup Bots, c : {0} \cup Slots, a : {0} \cup Ids]
    /\ Cardinality(runs) <= MaxRuns
    /\ \A k \in 1..maxAttempts : hist.stoppedDelays[k] <= delays[k]
    /\ \A a \in Ids : att[a].sock \in {"none", "connecting", "open", "closing",
                                       "failing", "closed"}

====
